---- MODULE Spec2Model ----
(***************************************************************************)
(* Model of polkadot-historic-decoding:                                    *)
(*   - utils/runner.rs    Runner::run, a worker pool with ordered output   *)
(*   - binary_chopper.rs  BinaryChopper, a bisection over block numbers,   *)
(*                        and the loop that collects every change with it  *)
(*   - decoding/extrinsic_decoder.rs and decoder.rs, decode_extrinsic      *)
(*   - decoding/storage_decoder.rs, decode_storage_keys and                *)
(*                        decode_storage_value                             *)
(*   - decoding/extrinsic_type_info.rs and decoding/mod.rs,                *)
(*                        get_extrinsic_info and the call types built from *)
(*                        the metadata                                     *)
(*   - utils/runner.rs    RoundRobin                                       *)
(*   - commands/          pick_pseudorandom_block and find_spec_changes    *)
(* Each part has its own specification; the variables of the other parts   *)
(* stay at their idle values.                                              *)
(***************************************************************************)
EXTENDS Integers, Sequences, FiniteSets, TLC

(***************************************************************************)
(* Bounds of the model.                                                    *)
(***************************************************************************)
\* largest num_tasks (number of spawned workers) passed to Runner::run
MaxWorkers == 2
\* task_fn yields an output only for the first MaxTasks task numbers
MaxTasks == 2
\* largest starting_task_number passed to Runner::run
MaxStart == 1
\* failed init calls that are counted while a task number is being retried
MaxInitErrs == 1
\* width in bits of the position type of the chopper (u32/u64/usize, scaled)
PosBits == 3
\* largest number of state transitions of a chopped state function
MaxTrans == 3
\* width in bits of usize in test_going_higher (scaled)
UsizeBits == 5
\* longest vector of versions chopped by the loop of test_going_higher
MaxSeqLen == 12
\* longest run of arbitrary bytes behind the envelope byte of an extrinsic
MaxTail == 4
\* longest run of bytes 0 and 1 behind the envelope byte of an extrinsic
MaxLongTail == 8
\* largest number of keys and of hashers of a storage entry with several keys
MaxKeys == 3
\* longest storage key handed to decode_storage_keys
MaxKeyBytes == 100
\* callers of RoundRobin::get that run concurrently
MaxCallers == 2
\* calls of RoundRobin::get in one behaviour
MaxGets == 6
\* longest list a RoundRobin is built from
MaxItems == 3
\* width in bits of the block numbers pick_pseudorandom_block computes with
BlockBits == 12
\* largest number handed to pick_pseudorandom_block
MaxNumber == 7
\* most spec-version updates in the list handed to pick_pseudorandom_block
MaxUpdates == 3
\* most pallets in the metadata
MaxPallets == 3
\* largest pallet index and call index asked for
MaxIndex == 3

(***************************************************************************)
(* Program constants.                                                      *)
(***************************************************************************)
\* runner.rs:35  const MAX_RETRIES: usize = 5;
MAX_RETRIES == 5
\* runner.rs:38  tokio::sync::mpsc::channel(10)
ChanCap == 10

VARIABLES
    \* ---- Runner::run: inputs
    num_tasks,              \* argument num_tasks: how many workers are spawned
    starting_task_number,   \* argument starting_task_number
    num_work,               \* environment: task numbers below start+num_work can succeed
    \* ---- Runner::run: shared objects
    next_task_num,          \* Arc<AtomicU64>
    chan,                   \* messages queued in the mpsc channel (task numbers)
    rx_closed,              \* output_rx has been dropped
    \* ---- Runner::run: the spawned workers, indexed by task_idx
    wpc,                    \* position of each worker
    current_task_num,       \* local current_task_num
    task_retries,           \* local task_retries
    \* ---- Runner::run: the collecting loop
    main_pc,                \* position of the body of run
    spawned,                \* loop variable task_idx of the spawn loop
    output_task_number,     \* local output_task_number
    outputs,                \* local HashMap outputs (its key set)
    cur_output,             \* the output about to be handed to output_fn
    run_result,             \* "running", or what run returned: "Ok" / "Err"
    \* ---- Runner::run: history
    emit_calls,             \* task numbers output_fn was invoked with, in order
    emit_errs,              \* how many of these calls returned an error
    claimed,                \* <<worker, number>> for every fetch_add, in order
    sent,                   \* task numbers whose send succeeded
    streak,                 \* consecutive failures of the worker's current number
    reinits,                \* init calls made while the current number is retried
    reinit_errs,            \* of these, how many returned an error
    last_init,              \* result of the worker's latest init call
    late_claims,            \* numbers the worker claimed after the receiver was dropped
    \* ---- BinaryChopper
    lo_in, hi_in,           \* positions the chopper was created with
    state_fn,               \* the state at every position
    cmin, cmax,             \* BinaryChopper.min / .max as <<position, state>>
    cst,                    \* "idle", "running", "needs", "finished", "panicked"
    cmid,                   \* position carried by Next::NeedsState
    probes,                 \* NeedsState results returned so far
    overflow_checks,        \* the build panics on integer overflow (else it wraps)
    pos_bits,               \* width in bits of the position type N
    \* ---- test_going_higher: the loop that chops again and again
    loop_pc,                \* "off", "test", "chopping", "done"
    start, end,             \* locals start and end
    changes,                \* local changes
    \* ---- decode_extrinsic / decode_storage_keys / decode_storage_value
    strict,                 \* decode_extrinsic of decoding/extrinsic_decoder.rs (else of decoder.rs)
    bytes,                  \* argument bytes
    sig_info,               \* what get_signature_info returns for the metadata
    storage_entry,          \* the storage entry type found in the metadata
    cursor,                 \* local cursor: the bytes not yet read
    unread,                 \* bytes of the input behind the extrinsic body
    ext_bytes,              \* local ext_bytes: the extrinsic body
    is_signed,              \* local is_signed
    todo,                   \* the signed extensions, arguments or keys still to decode
    dpc,                    \* position in the decode function
    dresult,                \* "running", or what the function returned: "Ok" / "Err" / "Panic"
    decoded,                \* the parts of the value returned so far
    consumed,               \* history: <<part, bytes>> for every part read, in order
    \* ---- RoundRobin
    items,                  \* RoundRobin.items
    idx,                    \* RoundRobin.idx, the Arc<AtomicUsize> all clones share
    get_pc,                 \* position of each caller of get: "idle" / "fetched"
    got_idx,                \* local idx of each caller: what its fetch_add returned
    gets,                   \* history: the calls of get that returned, in order
    \* ---- pick_pseudorandom_block
    spec_versions,          \* argument spec_versions
    number,                 \* argument number
    block_number,           \* the value returned
    pick_pc,                \* "idle", "call", "returned", "panicked"
    \* ---- get_extrinsic_info / extend_with_metadata_info
    metadata,               \* the runtime metadata
    pallet_index_arg,       \* argument pallet_index
    call_index_arg,         \* argument call_index
    lookup_pc,              \* "idle", "call", "done"
    info_result,            \* what get_extrinsic_info returned
    new_types,              \* the types extend_with_metadata_info has built
    \* ---- find_spec_changes::run (with the chopper and start, end, changes)
    starting_block_number,  \* local starting_block_number
    low_version,            \* local low_version
    high_version            \* local high_version

runnerVars == <<num_tasks, starting_task_number, num_work, next_task_num, chan,
                rx_closed, wpc, current_task_num, task_retries, main_pc, spawned,
                output_task_number, outputs, cur_output, run_result, emit_calls,
                emit_errs, claimed, sent, streak, reinits, reinit_errs, last_init,
                late_claims>>

chopperVars == <<lo_in, hi_in, state_fn, cmin, cmax, cst, cmid, probes,
                 overflow_checks, pos_bits, loop_pc, start, end, changes>>

decoderVars == <<strict, bytes, sig_info, storage_entry, cursor, unread, ext_bytes,
                 is_signed, todo, dpc, dresult, decoded, consumed>>

roundRobinVars == <<items, idx, get_pc, got_idx, gets>>

pickVars == <<spec_versions, number, block_number, pick_pc>>

lookupVars == <<metadata, pallet_index_arg, call_index_arg, lookup_pc, info_result, new_types>>

findVars == <<starting_block_number, low_version, high_version>>

toolVars == <<roundRobinVars, pickVars, lookupVars, findVars>>

vars == <<runnerVars, chopperVars, decoderVars, toolVars>>

Min(a, b) == IF a < b THEN a ELSE b

Range(s) == {s[i] : i \in 1..Len(s)}

(***************************************************************************)
(* Runner::run  (src/src/utils/runner.rs)                                  *)
(***************************************************************************)
AllWorkers == 0..(MaxWorkers - 1)

Workers == 0..(num_tasks - 1)

InitResults == {"Some", "None", "Err"}

TaskResults == {"Some", "None", "Err"}

EmitResults == {"Ok", "Err"}

\* the history counts init calls only while the current number has failed at
\* least once and has not yet been through a second session discard
Counting(w) == streak[w] >= 1 /\ streak[w] <= MAX_RETRIES + 1

RunnerIdle ==
    /\ num_tasks = 0
    /\ starting_task_number = 0
    /\ num_work = 0
    /\ next_task_num = 0
    /\ chan = <<>>
    /\ rx_closed = FALSE
    /\ wpc = [w \in AllWorkers |-> "unspawned"]
    /\ current_task_num = [w \in AllWorkers |-> 0]
    /\ task_retries = [w \in AllWorkers |-> 0]
    /\ main_pc = "done"
    /\ spawned = 0
    /\ output_task_number = 0
    /\ outputs = {}
    /\ cur_output = 0
    /\ run_result = "running"
    /\ emit_calls = <<>>
    /\ emit_errs = 0
    /\ claimed = <<>>
    /\ sent = {}
    /\ streak = [w \in AllWorkers |-> 0]
    /\ reinits = [w \in AllWorkers |-> 0]
    /\ reinit_errs = [w \in AllWorkers |-> 0]
    /\ last_init = [w \in AllWorkers |-> "none"]
    /\ late_claims = [w \in AllWorkers |-> 0]

ChopperIdle ==
    /\ lo_in = 0
    /\ hi_in = 0
    /\ state_fn = <<>>
    /\ cmin = <<0, 0>>
    /\ cmax = <<0, 0>>
    /\ cst = "idle"
    /\ cmid = 0
    /\ probes = 0
    /\ overflow_checks = FALSE
    /\ pos_bits = PosBits
    /\ loop_pc = "off"
    /\ start = 0
    /\ end = 0
    /\ changes = <<>>

NoSignatureInfo ==
    [ok |-> FALSE, address_id |-> "", signature_id |-> "", signed_extension_ids |-> <<>>]

NoStorageEntry ==
    [kind |-> "none", hashers |-> <<>>, keys |-> <<>>, value |-> "", key_ty |-> ""]

NothingDecoded ==
    [variant |-> "none", address |-> [fmt |-> "", of |-> <<>>],
     signature |-> [fmt |-> "", of |-> <<>>], signed_exts |-> <<>>,
     pallet_index |-> 0, call_index |-> 0, pallet_name |-> "", call_name |-> "",
     args |-> <<>>, keys |-> <<>>, value |-> <<>>]

DecoderIdle ==
    /\ strict = FALSE
    /\ bytes = <<>>
    /\ sig_info = NoSignatureInfo
    /\ storage_entry = NoStorageEntry
    /\ cursor = <<>>
    /\ unread = <<>>
    /\ ext_bytes = <<>>
    /\ is_signed = FALSE
    /\ todo = <<>>
    /\ dpc = "idle"
    /\ dresult = "running"
    /\ decoded = NothingDecoded
    /\ consumed = <<>>

\* the callers of RoundRobin::get: workers, or holders of clones
Callers == 0..(MaxCallers - 1)

NoExtrinsicInfo == [ok |-> FALSE, pallet_name |-> "", call_name |-> "", args |-> <<>>]

NoMetadata == [version |-> "none", modules |-> <<>>, calls_ty |-> "", tags |-> ""]

NoTypes == [ok |-> FALSE, types |-> <<>>]

\* nothing is selected, picked or looked up
ToolIdle ==
    /\ items = <<>>
    /\ idx = 0
    /\ get_pc = [c \in Callers |-> "idle"]
    /\ got_idx = [c \in Callers |-> 0]
    /\ gets = <<>>
    /\ spec_versions = [some |-> FALSE, val |-> <<>>]
    /\ number = 0
    /\ block_number = 0
    /\ pick_pc = "idle"
    /\ metadata = NoMetadata
    /\ pallet_index_arg = 0
    /\ call_index_arg = 0
    /\ lookup_pc = "idle"
    /\ info_result = NoExtrinsicInfo
    /\ new_types = NoTypes
    /\ starting_block_number = 0
    /\ low_version = 0
    /\ high_version = 0

\* run(num_tasks, starting_task_number) has been called: lines 34-38
RunnerInitWith(works) ==
    /\ num_tasks \in 0..MaxWorkers
    /\ starting_task_number \in 0..MaxStart
    /\ num_work \in works
    /\ next_task_num = starting_task_number
    /\ chan = <<>>
    /\ rx_closed = FALSE
    /\ wpc = [w \in AllWorkers |-> "unspawned"]
    /\ current_task_num = [w \in AllWorkers |-> 0]
    /\ task_retries = [w \in AllWorkers |-> 0]
    /\ main_pc = "spawn"
    /\ spawned = 0
    /\ output_task_number = starting_task_number
    /\ outputs = {}
    /\ cur_output = 0
    /\ run_result = "running"
    /\ emit_calls = <<>>
    /\ emit_errs = 0
    /\ claimed = <<>>
    /\ sent = {}
    /\ streak = [w \in AllWorkers |-> 0]
    /\ reinits = [w \in AllWorkers |-> 0]
    /\ reinit_errs = [w \in AllWorkers |-> 0]
    /\ last_init = [w \in AllWorkers |-> "none"]
    /\ late_claims = [w \in AllWorkers |-> 0]

RunnerInit == RunnerInitWith({MaxTasks}) /\ ChopperIdle /\ DecoderIdle /\ ToolIdle

\* ---- the body of run ----------------------------------------------------

\* lines 41-104: one iteration of the spawn loop; tokio::spawn starts the worker
Spawn ==
    /\ main_pc = "spawn"
    /\ spawned < num_tasks
    /\ wpc' = [wpc EXCEPT ![spawned] = "start"]
    /\ spawned' = spawned + 1
    /\ UNCHANGED <<num_tasks, starting_task_number, num_work, next_task_num, chan,
                   rx_closed, current_task_num, task_retries, main_pc,
                   output_task_number, outputs, cur_output, run_result, emit_calls, emit_errs,
                   claimed, sent, streak, reinits, reinit_errs, last_init, late_claims>>
    /\ UNCHANGED <<chopperVars, decoderVars, toolVars>>

\* line 108: drop(output_tx), then line 112-113
DropTx ==
    /\ main_pc = "spawn"
    /\ spawned = num_tasks
    /\ main_pc' = "recv"
    /\ UNCHANGED <<num_tasks, starting_task_number, num_work, next_task_num, chan,
                   rx_closed, wpc, current_task_num, task_retries, spawned,
                   output_task_number, outputs, cur_output, run_result, emit_calls, emit_errs,
                   claimed, sent, streak, reinits, reinit_errs, last_init, late_claims>>
    /\ UNCHANGED <<chopperVars, decoderVars, toolVars>>

\* line 115: is a received output the one to emit now?
IsNextOutputUnordered(task_num, expected) == TRUE

IsNextOutput(task_num, expected) == task_num = expected

\* lines 114-115, 124-126: output_rx.recv() yields a message
MainRecv ==
    /\ main_pc = "recv"
    /\ chan # <<>>
    /\ chan' = Tail(chan)
    /\ IF IsNextOutput(Head(chan), output_task_number)
       THEN /\ cur_output' = Head(chan)
            /\ main_pc' = "emit"
            /\ UNCHANGED outputs
       ELSE /\ outputs' = outputs \cup {Head(chan)}
            /\ UNCHANGED <<cur_output, main_pc>>
    /\ UNCHANGED <<num_tasks, starting_task_number, num_work, next_task_num,
                   rx_closed, wpc, current_task_num, task_retries, spawned,
                   output_task_number, run_result, emit_calls, emit_errs,
                   claimed, sent, streak, reinits, reinit_errs, last_init, late_claims>>
    /\ UNCHANGED <<chopperVars, decoderVars, toolVars>>

\* lines 106-108 without the drop: the Sender held by run is never dropped
SenderOfRunKept == FALSE

\* every Sender is gone: the one of run (line 108) and the clone of each worker
AllSendersDropped == \A w \in Workers : wpc[w] = "done"

\* lines 114, 129: recv() yields None, run returns Ok(()) and drops output_rx
MainRecvNone ==
    /\ main_pc = "recv"
    /\ chan = <<>>
    /\ AllSendersDropped
    /\ main_pc' = "done"
    /\ run_result' = "Ok"
    /\ rx_closed' = TRUE
    /\ UNCHANGED <<num_tasks, starting_task_number, num_work, next_task_num, chan,
                   wpc, current_task_num, task_retries, spawned,
                   output_task_number, outputs, cur_output, emit_calls, emit_errs,
                   claimed, sent, streak, reinits, reinit_errs, last_init, late_claims>>
    /\ UNCHANGED <<chopperVars, decoderVars, toolVars>>

\* the `?` of lines 116 and 121: what run does with the result of output_fn
AfterEmitIgnoreErr(r) == "drain"

AfterEmit(r) == IF r = "Ok" THEN "drain" ELSE "done"

\* lines 116-117, 121-122: output_fn(output)?; output_task_number += 1
MainEmit(r) ==
    /\ main_pc = "emit"
    /\ emit_calls' = Append(emit_calls, cur_output)
    /\ emit_errs' = emit_errs + (IF r = "Err" THEN 1 ELSE 0)
    /\ main_pc' = AfterEmit(r)
    /\ IF AfterEmit(r) = "drain"
       THEN /\ output_task_number' = output_task_number + 1
            /\ UNCHANGED <<run_result, rx_closed, chan, outputs>>
       ELSE \* run returns the error: output_rx and outputs are dropped
            /\ run_result' = "Err"
            /\ rx_closed' = TRUE
            /\ chan' = <<>>
            /\ outputs' = {}
            /\ UNCHANGED output_task_number
    /\ UNCHANGED <<num_tasks, starting_task_number, num_work, next_task_num,
                   wpc, current_task_num, task_retries, spawned, cur_output,
                   claimed, sent, streak, reinits, reinit_errs, last_init, late_claims>>
    /\ UNCHANGED <<chopperVars, decoderVars, toolVars>>

\* line 120: while let Some(output) = outputs.remove(&output_task_number)
MainDrain ==
    /\ main_pc = "drain"
    /\ IF output_task_number \in outputs
       THEN /\ outputs' = outputs \ {output_task_number}
            /\ cur_output' = output_task_number
            /\ main_pc' = "emit"
       ELSE /\ main_pc' = "recv"
            /\ UNCHANGED <<outputs, cur_output>>
    /\ UNCHANGED <<num_tasks, starting_task_number, num_work, next_task_num, chan,
                   rx_closed, wpc, current_task_num, task_retries, spawned,
                   output_task_number, run_result, emit_calls, emit_errs,
                   claimed, sent, streak, reinits, reinit_errs, last_init, late_claims>>
    /\ UNCHANGED <<chopperVars, decoderVars, toolVars>>

\* ---- a spawned worker ---------------------------------------------------

\* lines 49, 100: the value fetch_add(1, Relaxed) leaves in the counter
FetchAddLost(counter) == counter

FetchAdd(counter) == counter + 1

\* line 49: let mut current_task_num = next_task_num.fetch_add(1, ..)
FirstFetch(w) ==
    /\ wpc[w] = "start"
    /\ current_task_num' = [current_task_num EXCEPT ![w] = next_task_num]
    /\ next_task_num' = FetchAdd(next_task_num)
    /\ claimed' = Append(claimed, <<w, next_task_num>>)
    /\ late_claims' = [late_claims EXCEPT ![w] = @ + (IF rx_closed THEN 1 ELSE 0)]
    /\ wpc' = [wpc EXCEPT ![w] = "outer"]
    /\ UNCHANGED <<num_tasks, starting_task_number, num_work, chan, rx_closed,
                   task_retries, main_pc, spawned, output_task_number, outputs,
                   cur_output, run_result, emit_calls, emit_errs, sent, streak, reinits,
                   reinit_errs, last_init>>
    /\ UNCHANGED <<chopperVars, decoderVars, toolVars>>

\* lines 51-58: head of 'outer: return if the channel is closed, else call init_fn
OuterCheck(w) ==
    /\ wpc[w] = "outer"
    /\ IF rx_closed
       THEN /\ wpc' = [wpc EXCEPT ![w] = "done"]
            /\ UNCHANGED reinits
       ELSE /\ wpc' = [wpc EXCEPT ![w] = "init"]
            /\ reinits' = [reinits EXCEPT ![w] = IF Counting(w) THEN @ + 1 ELSE @]
    /\ UNCHANGED <<num_tasks, starting_task_number, num_work, next_task_num, chan,
                   rx_closed, current_task_num, task_retries, main_pc, spawned,
                   output_task_number, outputs, cur_output, run_result, emit_calls, emit_errs,
                   claimed, sent, streak, reinit_errs, last_init, late_claims>>
    /\ UNCHANGED <<chopperVars, decoderVars, toolVars>>

\* lines 58-68: where the worker goes with the result of init_fn
AfterInitGiveUp(r) ==
    CASE r = "Some" -> "task"
      [] r = "None" -> "done"
      [] r = "Err"  -> "done"

AfterInit(r) ==
    CASE r = "Some" -> "task"
      [] r = "None" -> "done"
      [] r = "Err"  -> "outer"

\* lines 58-71: init_fn(task_idx, &state).await returns r
InitReturn(w, r) ==
    /\ wpc[w] = "init"
    /\ wpc' = [wpc EXCEPT ![w] = AfterInit(r)]
    /\ last_init' = [last_init EXCEPT ![w] = r]
    /\ task_retries' = [task_retries EXCEPT ![w] = IF r = "Some" THEN 0 ELSE @]
    /\ reinit_errs' = [reinit_errs EXCEPT
                         ![w] = IF r = "Err" /\ Counting(w) THEN @ + 1 ELSE @]
    /\ UNCHANGED <<num_tasks, starting_task_number, num_work, next_task_num, chan,
                   rx_closed, current_task_num, main_pc, spawned,
                   output_task_number, outputs, cur_output, run_result, emit_calls, emit_errs,
                   claimed, sent, streak, reinits, late_claims>>
    /\ UNCHANGED <<chopperVars, decoderVars, toolVars>>

\* line 84: if task_retries > MAX_RETRIES  (task_retries already incremented)
GivesUpSessionAtOnce(retries) == retries > 0

GivesUpSessionEarly(retries) == retries >= MAX_RETRIES

GivesUpSession(retries) == retries > MAX_RETRIES

\* lines 84-91 with the worker returning once the retries are used up
AfterTaskErrAbandon(retries) == IF GivesUpSession(retries) THEN "done" ELSE "task"

\* lines 84-91: continue 'outer once the retries are used up, else continue 'inner
AfterTaskErr(retries) == IF GivesUpSession(retries) THEN "outer" ELSE "task"

\* lines 73-93: task_fn(current_task_num, &workload).await returns r
TaskReturn(w, r) ==
    /\ wpc[w] = "task"
    /\ CASE r = "Some" ->
              /\ task_retries' = [task_retries EXCEPT ![w] = 0]
              /\ wpc' = [wpc EXCEPT ![w] = "send"]
              /\ UNCHANGED <<streak, reinits, reinit_errs>>
         [] r = "None" ->
              /\ wpc' = [wpc EXCEPT ![w] = "done"]
              /\ UNCHANGED <<task_retries, streak, reinits, reinit_errs>>
         [] r = "Err" ->
              /\ task_retries' = [task_retries EXCEPT ![w] = @ + 1]
              /\ wpc' = [wpc EXCEPT ![w] = AfterTaskErr(task_retries[w] + 1)]
              /\ streak' = [streak EXCEPT ![w] = Min(@ + 1, MAX_RETRIES + 2)]
              /\ reinits' = [reinits EXCEPT
                               ![w] = IF streak[w] + 1 > MAX_RETRIES + 1 THEN 0 ELSE @]
              /\ reinit_errs' = [reinit_errs EXCEPT
                               ![w] = IF streak[w] + 1 > MAX_RETRIES + 1 THEN 0 ELSE @]
    /\ UNCHANGED <<num_tasks, starting_task_number, num_work, next_task_num, chan,
                   rx_closed, current_task_num, main_pc, spawned,
                   output_task_number, outputs, cur_output, run_result, emit_calls, emit_errs,
                   claimed, sent, last_init, late_claims>>
    /\ UNCHANGED <<chopperVars, decoderVars, toolVars>>

\* lines 96-98 with a send that succeeds on a closed channel
SendIgnoringClose(w) ==
    /\ wpc[w] = "send"
    /\ Len(chan) < ChanCap
    /\ chan' = Append(chan, current_task_num[w])
    /\ sent' = sent \cup {current_task_num[w]}
    /\ wpc' = [wpc EXCEPT ![w] = "fetch"]
    /\ UNCHANGED <<num_tasks, starting_task_number, num_work, next_task_num,
                   rx_closed, current_task_num, task_retries, main_pc, spawned,
                   output_task_number, outputs, cur_output, run_result, emit_calls,
                   emit_errs, claimed, streak, reinits, reinit_errs, last_init,
                   late_claims>>
    /\ UNCHANGED <<chopperVars, decoderVars, toolVars>>

\* lines 96-98: output_tx.send((current_task_num, output)).await
Send(w) ==
    /\ wpc[w] = "send"
    /\ IF rx_closed
       THEN \* Err(_): the output is dropped and the worker returns
            /\ wpc' = [wpc EXCEPT ![w] = "done"]
            /\ UNCHANGED <<chan, sent>>
       ELSE /\ Len(chan) < ChanCap
            /\ chan' = Append(chan, current_task_num[w])
            /\ sent' = sent \cup {current_task_num[w]}
            /\ wpc' = [wpc EXCEPT ![w] = "fetch"]
    /\ UNCHANGED <<num_tasks, starting_task_number, num_work, next_task_num,
                   rx_closed, current_task_num, task_retries, main_pc, spawned,
                   output_task_number, outputs, cur_output, run_result, emit_calls, emit_errs,
                   claimed, streak, reinits, reinit_errs, last_init, late_claims>>
    /\ UNCHANGED <<chopperVars, decoderVars, toolVars>>

\* line 100: current_task_num = next_task_num.fetch_add(1, ..); back to 'inner
NextFetch(w) ==
    /\ wpc[w] = "fetch"
    /\ current_task_num' = [current_task_num EXCEPT ![w] = next_task_num]
    /\ next_task_num' = FetchAdd(next_task_num)
    /\ claimed' = Append(claimed, <<w, next_task_num>>)
    /\ late_claims' = [late_claims EXCEPT ![w] = @ + (IF rx_closed THEN 1 ELSE 0)]
    /\ wpc' = [wpc EXCEPT ![w] = "task"]
    /\ streak' = [streak EXCEPT ![w] = 0]
    /\ reinits' = [reinits EXCEPT ![w] = 0]
    /\ reinit_errs' = [reinit_errs EXCEPT ![w] = 0]
    /\ UNCHANGED <<num_tasks, starting_task_number, num_work, chan, rx_closed,
                   task_retries, main_pc, spawned, output_task_number, outputs,
                   cur_output, run_result, emit_calls, emit_errs, sent, last_init>>
    /\ UNCHANGED <<chopperVars, decoderVars, toolVars>>

\* ---- the environment: what init_fn, task_fn and output_fn may return -------

\* any result; a counted init error only while the history can count it
InitOutcomes(w) ==
    IF Counting(w) /\ reinit_errs[w] >= MaxInitErrs
    THEN {"Some", "None"} ELSE InitResults

\* any result; an output only for the first num_work task numbers
TaskOutcomes(w) ==
    IF current_task_num[w] < starting_task_number + num_work
    THEN TaskResults ELSE {"None", "Err"}

MainStep ==
    \/ Spawn
    \/ DropTx
    \/ MainRecv
    \/ MainRecvNone
    \/ MainDrain

WorkerStep(w) ==
    \/ FirstFetch(w)
    \/ OuterCheck(w)
    \/ Send(w)
    \/ NextFetch(w)

\* init_fn of worker w returns r
InitDone(w, r) == r \in InitOutcomes(w) /\ InitReturn(w, r)

\* task_fn of worker w returns r
TaskDone(w, r) == r \in TaskOutcomes(w) /\ TaskReturn(w, r)

RunnerNext ==
    \/ MainStep
    \/ \E r \in EmitResults : MainEmit(r)
    \/ \E w \in AllWorkers :
         \/ WorkerStep(w)
         \/ \E r \in InitResults : InitDone(w, r)
         \/ \E r \in TaskResults : TaskDone(w, r)

\* Runner::run with init_fn, task_fn and output_fn free to return anything
Spec == RunnerInit /\ [][RunnerNext]_vars

\* every step of worker w, the completion of its init and task futures included
WorkerRuns(w) ==
    \/ WorkerStep(w)
    \/ \E r \in InitResults : InitDone(w, r)
    \/ \E r \in TaskResults : TaskDone(w, r)

\* Spec on a runtime that keeps polling every spawned worker
FairSpec == Spec /\ \A w \in AllWorkers : WF_vars(WorkerRuns(w))


\* ---- Runner::run on a bounded workload ------------------------------------
\* init_fn succeeds or fails, never reports "no more work"
BoundedInitOutcomes(w) == InitOutcomes(w) \ {"None"}

\* task_fn succeeds or fails below start+num_work and reports "no more work" from there on
BoundedTaskOutcomes(w) ==
    IF current_task_num[w] < starting_task_number + num_work
    THEN {"Some", "Err"} ELSE {"None"}

\* output_fn never fails
BoundedMain == MainStep \/ MainEmit("Ok")

BoundedInitDone(w, r) ==
    /\ r \in BoundedInitOutcomes(w)
    /\ InitReturn(w, r)

BoundedTaskDone(w, r) ==
    /\ r \in BoundedTaskOutcomes(w)
    /\ TaskReturn(w, r)

BoundedNext ==
    \/ BoundedMain
    \/ \E w \in AllWorkers :
         \/ WorkerStep(w)
         \/ \E r \in {"Some", "Err"} : BoundedInitDone(w, r)
         \/ \E r \in TaskResults : BoundedTaskDone(w, r)

BoundedInit == RunnerInitWith(0..MaxTasks) /\ ChopperIdle /\ DecoderIdle /\ ToolIdle

\* every future is driven to completion by the tokio runtime (weak fairness of
\* every step); init and task succeed eventually (strong fairness of success)
BoundedFairness ==
    /\ WF_vars(BoundedMain)
    /\ \A w \in AllWorkers :
         /\ WF_vars(WorkerStep(w))
         /\ SF_vars(BoundedInitDone(w, "Some"))
         /\ SF_vars(BoundedTaskDone(w, "Some"))
         /\ WF_vars(BoundedTaskDone(w, "None"))

BoundedSpec == BoundedInit /\ [][BoundedNext]_vars /\ BoundedFairness

(***************************************************************************)
(* BinaryChopper  (src/src/binary_chopper.rs)                              *)
(***************************************************************************)
\* the values of the position type N
PosMod == 2 ^ pos_bits

Positions == 0..(PosMod - 1)

\* a + b does not fit the position type
Overflows(a, b) == a + b >= PosMod

\* lines 78-80: fn increment(&self) = self + 1, where the sum wraps
Increment(a) == (a + 1) % PosMod

\* lines 81-83 with the midpoint taken without adding the two positions
MidNoOverflow(a, b) == IF a <= b THEN a + ((b - a) \div 2) ELSE b + ((a - b) \div 2)

\* lines 64-66, 81-83: fn mid(&self, other) = (self + other) / 2, where the sum wraps
Mid(a, b) == ((a + b) % PosMod) \div 2

\* line 45 with the test for adjacent positions left out
IsFinishedOnlyEqual(min, max) == min[1] = max[1]

\* line 45 with positions two apart taken for adjacent ones
IsFinishedTwoApart(min, max) == min[1] = max[1] \/ max[1] - min[1] \in {1, 2}

\* line 45: self.min.0 == self.max.0 || self.min.0.increment() == self.max.0
IsFinished(min, max) == min[1] = max[1] \/ Increment(min[1]) = max[1]

\* lines 45, 48: an addition evaluated by next_value overflows
NextValueOverflows(min, max) ==
    /\ min[1] # max[1]
    /\ \/ Overflows(min[1], 1)
       \/ ~IsFinished(min, max) /\ Overflows(min[1], max[1])

\* the state functions chopped, given by the positions at which the state
\* changes: in StateOf every change leads to a new state (the state at p counts
\* the transition points <= p, as a spec version does), in Flipping the state
\* goes back and forth between two values
TransitionSets == {T \in SUBSET (Positions \ {0}) : Cardinality(T) <= MaxTrans}

StateOf(T) == [p \in Positions |-> Cardinality({t \in T : t <= p})]

Flipping(T) == [p \in Positions |-> Cardinality({t \in T : t <= p}) % 2]

StateFns == {StateOf(T) : T \in TransitionSets} \cup {Flipping(T) : T \in TransitionSets}

\* lines 34-36: BinaryChopper::new((lo, state(lo)), (hi, state(hi)))
ChopperInit ==
    /\ RunnerIdle
    /\ DecoderIdle
    /\ ToolIdle
    /\ pos_bits = PosBits
    /\ loop_pc = "off"
    /\ start = 0
    /\ end = 0
    /\ changes = <<>>
    /\ lo_in \in Positions
    /\ hi_in \in Positions
    /\ state_fn \in StateFns
    /\ overflow_checks \in BOOLEAN
    /\ cmin = <<lo_in, state_fn[lo_in]>>
    /\ cmax = <<hi_in, state_fn[hi_in]>>
    /\ cst = "running"
    /\ cmid = 0
    /\ probes = 0

\* lines 42-50: next_value()
NextValue ==
    /\ cst = "running"
    /\ IF overflow_checks /\ NextValueOverflows(cmin, cmax)
       THEN /\ cst' = "panicked"
            /\ UNCHANGED <<cmid, probes>>
       ELSE IF IsFinished(cmin, cmax)
       THEN /\ cst' = "finished"
            /\ UNCHANGED <<cmid, probes>>
       ELSE /\ cst' = "needs"
            /\ cmid' = Mid(cmin[1], cmax[1])
            /\ probes' = Min(probes + 1, PosMod)
    /\ UNCHANGED <<lo_in, hi_in, state_fn, cmin, cmax, overflow_checks>>
    /\ UNCHANGED <<pos_bits, loop_pc, start, end, changes>>
    /\ UNCHANGED <<runnerVars, decoderVars, toolVars>>

\* line 57 with the test turned round: the low bound is replaced when the
\* supplied state differs from its state
ReplacesMinWhenDiffers(state, min) == state # min[2]

\* line 57: if state == self.min.1
ReplacesMin(state, min) == state = min[2]

\* lines 55-62: set_state_for_next_value(state), given the state at the
\* position next_value asked for
SetStateForNextValue ==
    /\ cst = "needs"
    /\ LET state == state_fn[cmid]
           mid == Mid(cmin[1], cmax[1])
       IN  IF ReplacesMin(state, cmin)
           THEN cmin' = <<mid, state>> /\ UNCHANGED cmax
           ELSE cmax' = <<mid, state>> /\ UNCHANGED cmin
    /\ cst' = "running"
    /\ UNCHANGED <<lo_in, hi_in, state_fn, cmid, probes, overflow_checks>>
    /\ UNCHANGED <<pos_bits, loop_pc, start, end, changes>>
    /\ UNCHANGED <<runnerVars, decoderVars, toolVars>>

ChopperNext ==
    \/ NextValue
    \/ SetStateForNextValue

\* a chopper driven the way find_spec_changes and the test drive it
ChopperSpec == ChopperInit /\ [][ChopperNext]_vars

\* ---- test_going_higher (lines 96-131) ------------------------------------
\* the vectors of versions: equal versions are next to each other, a version
\* that has been left does not come back
VersionVectors ==
    {[p \in 0..(n - 1) |-> Cardinality({t \in T : t <= p})] :
        <<n, T>> \in {nT \in (1..MaxSeqLen) \X SUBSET (1..(MaxSeqLen - 1)) :
                        \A t \in nT[2] : t < nT[1]}}

\* line 98: let versions = vec![0,0,0,1,1,1,1,2,3,4,4,5];
TestVersions ==
    [p \in 0..11 |-> Cardinality({t \in {3, 7, 8, 9, 11} : t <= p})]

\* lines 98-101: versions, start = 0, end = versions.len() - 1, changes = vec![];
\* a vector's indexes take at most half of the range of usize
GoingHigherInit ==
    /\ RunnerIdle
    /\ DecoderIdle
    /\ ToolIdle
    /\ pos_bits = UsizeBits
    /\ state_fn \in VersionVectors
    /\ 2 * Cardinality(DOMAIN state_fn) <= PosMod
    /\ overflow_checks \in BOOLEAN
    /\ loop_pc = "test"
    /\ start = 0
    /\ end = Cardinality(DOMAIN state_fn) - 1
    /\ changes = <<>>
    /\ lo_in = 0
    /\ hi_in = 0
    /\ cmin = <<0, 0>>
    /\ cmax = <<0, 0>>
    /\ cst = "idle"
    /\ cmid = 0
    /\ probes = 0

\* lines 103-107: while start != end { BinaryChopper::new((start, versions[start]),
\* (end, versions[end])) ...
LoopEnter ==
    /\ loop_pc = "test"
    /\ start # end
    /\ loop_pc' = "chopping"
    /\ lo_in' = start
    /\ hi_in' = end
    /\ cmin' = <<start, state_fn[start]>>
    /\ cmax' = <<end, state_fn[end]>>
    /\ cst' = "running"
    /\ probes' = 0
    /\ UNCHANGED <<state_fn, cmid, overflow_checks, pos_bits, start, end, changes>>
    /\ UNCHANGED <<runnerVars, decoderVars, toolVars>>

\* line 103: start == end, the loop is left
LoopExit ==
    /\ loop_pc = "test"
    /\ start = end
    /\ loop_pc' = "done"
    /\ UNCHANGED <<lo_in, hi_in, state_fn, cmin, cmax, cst, cmid, probes,
                   overflow_checks, pos_bits, start, end, changes>>
    /\ UNCHANGED <<runnerVars, decoderVars, toolVars>>

\* lines 113-117: finished = chopper.next_value().unwrap_finished();
\* start = change_end; changes.push(finished);
PushChange ==
    /\ loop_pc = "chopping"
    /\ cst = "finished"
    /\ start' = cmax[1]
    /\ changes' = Append(changes, <<cmin, cmax>>)
    /\ loop_pc' = "test"
    /\ cst' = "idle"
    /\ UNCHANGED <<lo_in, hi_in, state_fn, cmin, cmax, cmid, probes,
                   overflow_checks, pos_bits, end>>
    /\ UNCHANGED <<runnerVars, decoderVars, toolVars>>

GoingHigherNext ==
    \/ LoopEnter
    \/ NextValue
    \/ SetStateForNextValue
    \/ PushChange
    \/ LoopExit

GoingHigherSpec == GoingHigherInit /\ [][GoingHigherNext]_vars

(***************************************************************************)
(* SCALE decoding as the decoders use it (parity_scale_codec, scale_value) *)
(***************************************************************************)
Zeros(n) == [i \in 1..n |-> 0]

SeqsUpTo(S, n) == UNION {[1..k -> S] : k \in 0..n}

\* &s[..k]
Take(s, k) == SubSeq(s, 1, k)

\* &s[k..]
Drop(s, k) == SubSeq(s, k + 1, Len(s))

\* stands for every decoded length of 2^30 or more: longer than any input here
HugeLength == 2 ^ 30

CompactFailed == [ok |-> FALSE, val |-> 0, used |-> 0]

CompactOk(v, n) == [ok |-> TRUE, val |-> v, used |-> n]

\* Compact::<u64>::decode(cursor): the two low bits of the first byte select the
\* width; an encoding wider than its value needs is rejected
CompactDecode(b) ==
    IF Len(b) = 0 THEN CompactFailed
    ELSE CASE b[1] % 4 = 0 -> CompactOk(b[1] \div 4, 1)
           [] b[1] % 4 = 1 ->
                IF Len(b) < 2 THEN CompactFailed
                ELSE LET x == (b[1] \div 4) + 64 * b[2]
                     IN  IF x > 63 THEN CompactOk(x, 2) ELSE CompactFailed
           [] b[1] % 4 = 2 ->
                IF Len(b) < 4 THEN CompactFailed
                ELSE LET x == (b[1] \div 4) + 64 * b[2] + 16384 * b[3] + 4194304 * b[4]
                     IN  IF x > 16383 THEN CompactOk(x, 4) ELSE CompactFailed
           [] OTHER ->
                LET bytes_needed == (b[1] \div 4) + 4
                IN  IF bytes_needed > 8 \/ Len(b) < 1 + bytes_needed THEN CompactFailed
                    ELSE IF bytes_needed = 4
                    THEN (IF b[5] >= 64 THEN CompactOk(HugeLength, 5) ELSE CompactFailed)
                    ELSE IF b[1 + bytes_needed] # 0
                    THEN CompactOk(HugeLength, 1 + bytes_needed)
                    ELSE CompactFailed

\* Compact(n).encode() for n < 2^14, as the node produces the length prefix
CompactEncode(n) ==
    IF n < 64 THEN <<4 * n>> ELSE <<(4 * n + 1) % 256, (4 * n + 1) \div 256>>

\* the type ids the metadata of the model refers to; "unknown" is not in the
\* type registry
TypeIds == {"u8", "bool", "compact", "account32", "unknown"}

DecodeFailed == [ok |-> FALSE, val |-> <<>>, used |-> 0]

DecodeOk(v, n) == [ok |-> TRUE, val |-> v, used |-> n]

\* scale_value::scale::decode_as_type(cursor, id, type_resolver): the value and
\* the number of bytes taken from the cursor
DecodeAsType(id, b) ==
    CASE id = "u8" -> IF Len(b) >= 1 THEN DecodeOk(<<b[1]>>, 1) ELSE DecodeFailed
      [] id = "bool" ->
           IF Len(b) >= 1 /\ b[1] \in {0, 1} THEN DecodeOk(<<b[1]>>, 1) ELSE DecodeFailed
      [] id = "compact" ->
           LET r == CompactDecode(b)
           IN  IF r.ok THEN DecodeOk(<<r.val>>, r.used) ELSE DecodeFailed
      [] id = "account32" ->
           IF Len(b) >= 32 THEN DecodeOk(Take(b, 32), 32) ELSE DecodeFailed
      [] OTHER -> DecodeFailed

(***************************************************************************)
(* decode_extrinsic  (src/src/decoding/extrinsic_decoder.rs, the strict    *)
(* one, and src/src/decoder.rs)                                            *)
(***************************************************************************)
Arg(name, id) == [name |-> name, id |-> id]

\* get_signature_info(): an error, or the address type, the signature type and
\* the signed extensions of the metadata
SignatureInfos ==
    { NoSignatureInfo,
      [ok |-> TRUE, address_id |-> "account32", signature_id |-> "u8",
       signed_extension_ids |-> <<>>],
      [ok |-> TRUE, address_id |-> "u8", signature_id |-> "u8",
       signed_extension_ids |-> <<Arg("CheckGenesis", "bool"), Arg("CheckNonce", "compact")>>],
      [ok |-> TRUE, address_id |-> "unknown", signature_id |-> "u8",
       signed_extension_ids |-> <<>>] }

ExtrinsicInfo(pallet_name, call_name, args) ==
    [ok |-> TRUE, pallet_name |-> pallet_name, call_name |-> call_name, args |-> args]

\* get_extrinsic_info(pallet_index, call_index) for the metadata of the model
ExtrinsicInfoOf(pallet_index, call_index) ==
    CASE <<pallet_index, call_index>> = <<0, 0>> ->
           ExtrinsicInfo("Timestamp", "touch", <<>>)
      [] <<pallet_index, call_index>> = <<0, 1>> ->
           ExtrinsicInfo("Timestamp", "set", <<Arg("now", "compact")>>)
      [] <<pallet_index, call_index>> = <<1, 0>> ->
           ExtrinsicInfo("Balances", "transfer", <<Arg("keep_alive", "bool"), Arg("value", "compact")>>)
      [] <<pallet_index, call_index>> = <<1, 1>> ->
           ExtrinsicInfo("Balances", "other", <<Arg("what", "unknown")>>)
      [] OTHER -> NoExtrinsicInfo

\* first bytes of an extrinsic body: version 4 unsigned and signed, version 5
\* unsigned and signed, and version 4 with bit 6 set
EnvelopeBytes == {4, 132, 5, 133, 68}

TailBytes == {0, 1, 2}

Tails == SeqsUpTo(TailBytes, MaxTail) \cup SeqsUpTo({0, 1}, MaxLongTail)

\* the extrinsic bodies handed to the decoder: none, or an envelope byte followed
\* by nothing or 32 zero bytes (an account id) and a few more bytes
Bodies ==
    {<<>>} \cup {<<e>> \o Zeros(pad) \o t : e \in EnvelopeBytes, pad \in {0, 32}, t \in Tails}

Framings == {"exact", "suffix", "longer", "noncanonical", "bare"}

\* the input: the body behind its length prefix, behind the prefix and followed
\* by one more byte, behind the prefix of a longer body, behind a prefix that
\* encodes 0 in two bytes, or without any prefix
Frame(body, f) ==
    CASE f = "exact" -> CompactEncode(Len(body)) \o body
      [] f = "suffix" -> CompactEncode(Len(body)) \o body \o <<0>>
      [] f = "longer" -> CompactEncode(Len(body) + 1) \o body
      [] f = "noncanonical" -> <<1, 0>> \o body
      [] OTHER -> body

\* lines 43-49: decode_extrinsic_inner(bytes, args_info, type_resolver)
ExtrinsicInit ==
    /\ RunnerIdle
    /\ ChopperIdle
    /\ ToolIdle
    /\ strict \in BOOLEAN
    /\ sig_info \in SignatureInfos
    /\ storage_entry = NoStorageEntry
    /\ bytes \in {Frame(body, f) : body \in Bodies, f \in Framings}
    /\ cursor = bytes
    /\ unread = <<>>
    /\ ext_bytes = <<>>
    /\ is_signed = FALSE
    /\ todo = <<>>
    /\ dpc = "length"
    /\ dresult = "running"
    /\ decoded = NothingDecoded
    /\ consumed = <<>>

\* extrinsic_decoder.rs line 54 with the comparison left out
LengthDiffersNever(is_strict, remaining, ext_len) == FALSE

\* extrinsic_decoder.rs line 54: cursor.len() != ext_len, a check that
\* decoder.rs does not make
LengthDiffers(is_strict, remaining, ext_len) == is_strict /\ remaining # ext_len

\* extrinsic_decoder.rs lines 51-63, decoder.rs lines 51-61
DecodeLength ==
    /\ dpc = "length"
    /\ LET len == CompactDecode(cursor)
           rest == Drop(cursor, len.used)
           ext_len == len.val
       IN  IF \/ ~len.ok
              \/ LengthDiffers(strict, Len(rest), ext_len)
              \/ Len(rest) < ext_len
              \/ ext_len < 1
           THEN /\ dresult' = "Err"
                /\ dpc' = "done"
                /\ UNCHANGED <<cursor, unread, ext_bytes>>
           ELSE /\ ext_bytes' = Take(rest, ext_len)
                /\ unread' = Drop(rest, ext_len)
                /\ cursor' = Take(rest, ext_len)
                /\ dpc' = "version"
                /\ UNCHANGED dresult
    /\ UNCHANGED <<strict, bytes, sig_info, storage_entry, is_signed, todo, decoded, consumed>>
    /\ UNCHANGED <<runnerVars, chopperVars, toolVars>>

\* line 66 without the mask
VersionAllBits(b) == b

\* line 66: ext_bytes[0] & 0b0111_1111
Version(b) == b % 128

\* line 80: bytes[0] & 0b1000_0000 != 0
IsSigned(b) == (b \div 128) % 2 = 1

\* lines 66-71: match version { 4 => decode_v4_extrinsic(..), v => bail!(..) }
MatchVersion ==
    /\ dpc = "version"
    /\ IF Version(ext_bytes[1]) = 4
       THEN dpc' = "v4" /\ UNCHANGED dresult
       ELSE dresult' = "Err" /\ dpc' = "done"
    /\ UNCHANGED <<strict, bytes, sig_info, storage_entry, cursor, unread, ext_bytes,
                   is_signed, todo, decoded, consumed>>
    /\ UNCHANGED <<runnerVars, chopperVars, toolVars>>

\* lines 80-84: is_signed, cursor = &bytes[1..], get_signature_info()?
DecodeV4Extrinsic ==
    /\ dpc = "v4"
    /\ is_signed' = IsSigned(ext_bytes[1])
    /\ cursor' = Drop(ext_bytes, 1)
    /\ IF ~is_signed'
       THEN dpc' = "pallet_index" /\ UNCHANGED dresult
       ELSE IF sig_info.ok
       THEN dpc' = "address" /\ UNCHANGED dresult
       ELSE dresult' = "Err" /\ dpc' = "done"
    /\ UNCHANGED <<strict, bytes, sig_info, storage_entry, unread, ext_bytes, todo,
                   decoded, consumed>>
    /\ UNCHANGED <<runnerVars, chopperVars, toolVars>>

\* lines 90-93: an AccountId32 in ss58 form when 32 bytes were read, else hex
AddressString(address_bytes) ==
    [fmt |-> IF Len(address_bytes) = 32 THEN "ss58" ELSE "hex", of |-> address_bytes]

\* line 99: to_hex(signature_bytes)
ToHex(b) == [fmt |-> "hex", of |-> b]

\* extrinsic_decoder.rs lines 86-93 and 168-173: the address is the bytes the
\* decoding took from the cursor; the result of the decoding is not looked at,
\* and a decoding that fails leaves the cursor wherever it stopped.
\* decoder.rs line 88 unwraps the conversion to 32 bytes.
DecodeAddress ==
    /\ dpc = "address"
    /\ \E n \in 0..Len(cursor) :
        /\ LET r == DecodeAsType(sig_info.address_id, cursor)
           IN  r.ok => n = r.used
        /\ cursor' = Drop(cursor, n)
        /\ consumed' = Append(consumed, <<"address", Take(cursor, n)>>)
        /\ IF ~strict /\ n # 32
           THEN /\ dresult' = "Panic"
                /\ dpc' = "done"
                /\ UNCHANGED decoded
           ELSE /\ decoded' = [decoded EXCEPT !.address = AddressString(Take(cursor, n))]
                /\ dpc' = "signature"
                /\ UNCHANGED dresult
    /\ UNCHANGED <<strict, bytes, sig_info, storage_entry, unread, ext_bytes, is_signed, todo>>
    /\ UNCHANGED <<runnerVars, chopperVars, toolVars>>

\* lines 95-99 and 168-173: the signature, read the same way
DecodeSignature ==
    /\ dpc = "signature"
    /\ \E n \in 0..Len(cursor) :
        /\ LET r == DecodeAsType(sig_info.signature_id, cursor)
           IN  r.ok => n = r.used
        /\ cursor' = Drop(cursor, n)
        /\ consumed' = Append(consumed, <<"signature", Take(cursor, n)>>)
        /\ decoded' = [decoded EXCEPT !.signature = ToHex(Take(cursor, n))]
    /\ todo' = sig_info.signed_extension_ids
    /\ dpc' = IF sig_info.signed_extension_ids = <<>> THEN "pallet_index" ELSE "signed_exts"
    /\ UNCHANGED <<strict, bytes, sig_info, storage_entry, unread, ext_bytes, is_signed,
                   dresult>>
    /\ UNCHANGED <<runnerVars, chopperVars, toolVars>>

\* lines 101-104: the next signed extension, decode_as_type(cursor, signed_ext.id, ..)?
DecodeSignedExt ==
    /\ dpc = "signed_exts"
    /\ LET signed_ext == Head(todo)
           r == DecodeAsType(signed_ext.id, cursor)
       IN  IF ~r.ok
           THEN /\ dresult' = "Err"
                /\ dpc' = "done"
                /\ UNCHANGED <<cursor, todo, decoded, consumed>>
           ELSE /\ decoded' = [decoded EXCEPT
                                 !.signed_exts = Append(@, <<signed_ext.name, r.val>>)]
                /\ cursor' = Drop(cursor, r.used)
                /\ consumed' = Append(consumed, <<signed_ext.name, Take(cursor, r.used)>>)
                /\ todo' = Tail(todo)
                /\ dpc' = IF Tail(todo) = <<>> THEN "pallet_index" ELSE "signed_exts"
                /\ UNCHANGED dresult
    /\ UNCHANGED <<strict, bytes, sig_info, storage_entry, unread, ext_bytes, is_signed>>
    /\ UNCHANGED <<runnerVars, chopperVars, toolVars>>

\* line 120: let pallet_index: u8 = Decode::decode(cursor)?
DecodePalletIndex ==
    /\ dpc = "pallet_index"
    /\ IF cursor = <<>>
       THEN /\ dresult' = "Err"
            /\ dpc' = "done"
            /\ UNCHANGED <<cursor, decoded, consumed>>
       ELSE /\ decoded' = [decoded EXCEPT !.pallet_index = cursor[1]]
            /\ cursor' = Drop(cursor, 1)
            /\ consumed' = Append(consumed, <<"pallet_index", Take(cursor, 1)>>)
            /\ dpc' = "call_index"
            /\ UNCHANGED dresult
    /\ UNCHANGED <<strict, bytes, sig_info, storage_entry, unread, ext_bytes, is_signed, todo>>
    /\ UNCHANGED <<runnerVars, chopperVars, toolVars>>

\* lines 121-124: call_index, get_extrinsic_info(pallet_index, call_index)?
DecodeCallIndex ==
    /\ dpc = "call_index"
    /\ IF cursor = <<>> \/ ~ExtrinsicInfoOf(decoded.pallet_index, cursor[1]).ok
       THEN /\ dresult' = "Err"
            /\ dpc' = "done"
            /\ UNCHANGED <<cursor, todo, decoded, consumed>>
       ELSE LET extrinsic_info == ExtrinsicInfoOf(decoded.pallet_index, cursor[1])
            IN  /\ decoded' = [decoded EXCEPT !.call_index = cursor[1],
                                              !.pallet_name = extrinsic_info.pallet_name,
                                              !.call_name = extrinsic_info.call_name]
                /\ cursor' = Drop(cursor, 1)
                /\ consumed' = Append(consumed, <<"call_index", Take(cursor, 1)>>)
                /\ todo' = extrinsic_info.args
                /\ dpc' = IF extrinsic_info.args = <<>> THEN "leftover" ELSE "args"
                /\ UNCHANGED dresult
    /\ UNCHANGED <<strict, bytes, sig_info, storage_entry, unread, ext_bytes, is_signed>>
    /\ UNCHANGED <<runnerVars, chopperVars, toolVars>>

\* extrinsic_decoder.rs lines 125-143, decoder.rs lines 120-124: the next
\* argument; a value that does not decode ends the function with the error of
\* the traced decoding of the same bytes
DecodeArg ==
    /\ dpc = "args"
    /\ LET arg == Head(todo)
           value == DecodeAsType(arg.id, cursor)
       IN  IF ~value.ok
           THEN /\ dresult' = "Err"
                /\ dpc' = "done"
                /\ UNCHANGED <<cursor, todo, decoded, consumed>>
           ELSE /\ decoded' = [decoded EXCEPT !.args = Append(@, <<arg.name, value.val>>)]
                /\ cursor' = Drop(cursor, value.used)
                /\ consumed' = Append(consumed, <<arg.name, Take(cursor, value.used)>>)
                /\ todo' = Tail(todo)
                /\ dpc' = IF Tail(todo) = <<>> THEN "leftover" ELSE "args"
                /\ UNCHANGED dresult
    /\ UNCHANGED <<strict, bytes, sig_info, storage_entry, unread, ext_bytes, is_signed>>
    /\ UNCHANGED <<runnerVars, chopperVars, toolVars>>

\* lines 107, 110 with the unsigned variant built in both branches
VariantAlwaysUnsigned(signed) == "V4Unsigned"

\* lines 107, 110: Extrinsic::V4Signed { .. } / Extrinsic::V4Unsigned { .. }
VariantOf(signed) == IF signed THEN "V4Signed" ELSE "V4Unsigned"

\* lines 146-165 and 106-110: leftover bytes are an error, else the extrinsic is
\* returned
CheckLeftover ==
    /\ dpc = "leftover"
    /\ IF cursor # <<>>
       THEN /\ dresult' = "Err"
            /\ UNCHANGED decoded
       ELSE /\ dresult' = "Ok"
            /\ decoded' = [decoded EXCEPT !.variant = VariantOf(is_signed)]
    /\ dpc' = "done"
    /\ UNCHANGED <<strict, bytes, sig_info, storage_entry, cursor, unread, ext_bytes,
                   is_signed, todo, consumed>>
    /\ UNCHANGED <<runnerVars, chopperVars, toolVars>>

ExtrinsicNext ==
    \/ DecodeLength
    \/ MatchVersion
    \/ DecodeV4Extrinsic
    \/ DecodeAddress
    \/ DecodeSignature
    \/ DecodeSignedExt
    \/ DecodePalletIndex
    \/ DecodeCallIndex
    \/ DecodeArg
    \/ CheckLeftover

\* one call of decode_extrinsic
ExtrinsicSpec == ExtrinsicInit /\ [][ExtrinsicNext]_vars

(***************************************************************************)
(* get_storage_info  (src/src/decoding/storage_type_info.rs)               *)
(* decode_storage_keys, decode_storage_value                               *)
(*                   (src/src/decoding/storage_decoder.rs)                 *)
(***************************************************************************)
\* lines 53-68: enum StorageHasher
Hashers ==
    {"Blake2_128", "Blake2_256", "Blake2_128Concat", "Twox128", "Twox256",
     "Twox64Concat", "Identity"}

\* the hashers declared by the entries with several keys
NMapHashers == {"Blake2_256", "Twox64Concat", "Identity"}

\* the types of the first n keys of an entry with several keys
KeyIds(n) == Take(<<"u8", "bool", "u8">>, n)

StorageEntryType(kind, hashers, keys, value, key_ty) ==
    [kind |-> kind, hashers |-> hashers, keys |-> keys, value |-> value, key_ty |-> key_ty]

\* the storage entries a metadata can declare: Plain, Map and DoubleMap
\* (V8 to V13), NMap (V13), and the Map of V14 and V15, whose key type is a
\* tuple, another type, or missing from the type registry
StorageEntries ==
    {StorageEntryType("Plain", <<>>, <<>>, v, "") : v \in {"u8", "bool", "compact"}}
    \cup {StorageEntryType("Map", <<h>>, <<k>>, "u8", "") : h \in Hashers, k \in {"u8", "bool"}}
    \cup {StorageEntryType("DoubleMap", <<h1, h2>>, <<"u8", "bool">>, "u8", "") :
            h1 \in Hashers, h2 \in Hashers}
    \cup {StorageEntryType("NMap", hs, KeyIds(n), "u8", "") :
            hs \in SeqsUpTo(NMapHashers, MaxKeys), n \in 0..MaxKeys}
    \cup {StorageEntryType("MapV14", hs, KeyIds(n), "u8", "tuple") :
            hs \in SeqsUpTo(NMapHashers, MaxKeys), n \in 0..MaxKeys}
    \cup {StorageEntryType("MapV14", hs, <<"bool">>, "u8", "other") :
            hs \in SeqsUpTo(NMapHashers, MaxKeys)}
    \cup {StorageEntryType("MapV14", <<"Identity">>, <<"u8">>, "u8", "missing"),
          NoStorageEntry}

StorageKey(hasher, key_id) == [hasher |-> hasher, key_id |-> key_id]

NoStorageInfo == [ok |-> FALSE, keys |-> <<>>, value_id |-> ""]

StorageInfo(keys, value_id) == [ok |-> TRUE, keys |-> keys, value_id |-> value_id]

\* lines 199, 265 with a single hasher never applied to every key
OneHasherForAllNever(hashers) == FALSE

\* lines 199, 265: hashers.len() == 1
OneHasherForAll(hashers) == Len(hashers) = 1

\* lines 207, 272: hashers.len() == keys.len()
OneHasherPerKey(hashers, keys) == Len(hashers) = Len(keys)

\* lines 199-218, 265-287: the keys with one hasher for all of them, or zipped
\* with one hasher each, or an error
PairKeys(hashers, keys, value_id) ==
    IF OneHasherForAll(hashers)
    THEN StorageInfo([i \in 1..Len(keys) |-> StorageKey(hashers[1], keys[i])], value_id)
    ELSE IF OneHasherPerKey(hashers, keys)
    THEN StorageInfo([i \in 1..Min(Len(keys), Len(hashers)) |->
                         StorageKey(hashers[i], keys[i])], value_id)
    ELSE NoStorageInfo

\* get_storage_info(pallet_name, storage_entry): lines 77-127 (V8 to V12),
\* 142-226 (V13), 235-301 (V14, V15)
GetStorageInfo(e) ==
    CASE e.kind = "Plain" -> StorageInfo(<<>>, e.value)
      [] e.kind = "Map" -> StorageInfo(<<StorageKey(e.hashers[1], e.keys[1])>>, e.value)
      [] e.kind = "DoubleMap" ->
           StorageInfo(<<StorageKey(e.hashers[1], e.keys[1]),
                         StorageKey(e.hashers[2], e.keys[2])>>, e.value)
      [] e.kind = "NMap" -> PairKeys(e.hashers, e.keys, e.value)
      [] e.kind = "MapV14" /\ e.key_ty = "tuple" -> PairKeys(e.hashers, e.keys, e.value)
      [] e.kind = "MapV14" /\ e.key_ty = "other" ->
           IF Len(e.hashers) = 1
           THEN StorageInfo(<<StorageKey(e.hashers[1], e.keys[1])>>, e.value)
           ELSE NoStorageInfo
      [] OTHER -> NoStorageInfo

\* bytes whose values alternate, so that a part of them tells where it was taken
Pattern(n) == [i \in 1..n |-> i % 2]

\* lines 62-67: twox_128(pallet_name) ++ twox_128(storage_entry)
ExpectedPrefix == Pattern(32)

KeyLengths == {0, 31} \cup 32..MaxKeyBytes

\* the key bytes handed to decode_storage_keys: the pattern, the pattern with a
\* different first byte, or the pattern ending in a byte that is no bool
KeyInputs ==
    {Pattern(n) : n \in KeyLengths}
    \cup {[Pattern(n) EXCEPT ![1] = 2] : n \in KeyLengths \ {0}}
    \cup {[Pattern(n) EXCEPT ![n] = 2] : n \in KeyLengths \ {0}}

ValueInputs == SeqsUpTo(TailBytes, 2)

StorageInitWith(pc, inputs) ==
    /\ RunnerIdle
    /\ ChopperIdle
    /\ ToolIdle
    /\ strict = FALSE
    /\ sig_info = NoSignatureInfo
    /\ storage_entry \in StorageEntries
    /\ bytes \in inputs
    /\ cursor = bytes
    /\ unread = <<>>
    /\ ext_bytes = <<>>
    /\ is_signed = FALSE
    /\ todo = <<>>
    /\ dpc = pc
    /\ dresult = "running"
    /\ decoded = NothingDecoded
    /\ consumed = <<>>

\* decode_storage_keys(.., bytes, ..) or decode_storage_value(.., bytes, ..) is called
StorageInit ==
    \/ StorageInitWith("keys_info", KeyInputs)
    \/ StorageInitWith("value_info", ValueInputs)

\* lines 53-56 and 189-194: get_storage_info(..).with_context(..)?
StorageInfoStep ==
    /\ dpc \in {"keys_info", "value_info"}
    /\ LET storage_info == GetStorageInfo(storage_entry)
       IN  IF ~storage_info.ok
           THEN /\ dresult' = "Err"
                /\ dpc' = "done"
                /\ UNCHANGED todo
           ELSE /\ todo' = storage_info.keys
                /\ dpc' = IF dpc = "keys_info" THEN "prefix" ELSE "value"
                /\ UNCHANGED dresult
    /\ UNCHANGED <<strict, bytes, sig_info, storage_entry, cursor, unread, ext_bytes,
                   is_signed, decoded, consumed>>
    /\ UNCHANGED <<runnerVars, chopperVars, toolVars>>

\* lines 58-70: strip_bytes(cursor, 32)?, and the prefix is the expected one
StripPrefix ==
    /\ dpc = "prefix"
    /\ IF Len(cursor) < 32 \/ Take(cursor, 32) # ExpectedPrefix
       THEN /\ dresult' = "Err"
            /\ dpc' = "done"
            /\ UNCHANGED <<cursor, consumed>>
       ELSE /\ cursor' = Drop(cursor, 32)
            /\ consumed' = Append(consumed, <<"prefix", Take(cursor, 32)>>)
            /\ dpc' = IF todo = <<>> THEN "keys_leftover" ELSE "keys"
            /\ UNCHANGED dresult
    /\ UNCHANGED <<strict, bytes, sig_info, storage_entry, unread, ext_bytes, is_signed,
                   todo, decoded>>
    /\ UNCHANGED <<runnerVars, chopperVars, toolVars>>

\* lines 75-104 with 16 bytes stripped for every hasher
HashBytesAll16(hasher) == 16

\* lines 75-104: the number of bytes strip_bytes takes for the hasher
HashBytes(hasher) ==
    CASE hasher \in {"Blake2_128", "Twox128"} -> 16
      [] hasher \in {"Blake2_256", "Twox256"} -> 32
      [] hasher = "Blake2_128Concat" -> 16
      [] hasher = "Twox64Concat" -> 8
      [] OTHER -> 0

\* lines 85-104: the hashers behind whose hash the key itself is decoded
DecodesValue(hasher) == hasher \in {"Blake2_128Concat", "Twox64Concat", "Identity"}

NoValue == [some |-> FALSE, val |-> <<>>]

SomeValue(v) == [some |-> TRUE, val |-> v]

\* lines 72-106: the next key of storage_info.keys; the first error ends the
\* iteration and is what the function returns (lines 108, 113)
DecodeKey ==
    /\ dpc = "keys"
    /\ LET key == Head(todo)
           hasher == key.hasher
           stripped == Len(cursor) >= HashBytes(hasher)
           hash == Take(cursor, HashBytes(hasher))
           after == Drop(cursor, HashBytes(hasher))
           value == IF DecodesValue(hasher) THEN DecodeAsType(key.key_id, after)
                                            ELSE DecodeOk(<<>>, 0)
       IN  IF ~stripped \/ ~value.ok
           THEN /\ dresult' = "Err"
                /\ dpc' = "done"
                /\ UNCHANGED <<cursor, todo, decoded, consumed>>
           ELSE /\ decoded' = [decoded EXCEPT !.keys = Append(@,
                        [hash |-> hash,
                         value |-> IF DecodesValue(hasher) THEN SomeValue(value.val)
                                                           ELSE NoValue,
                         hasher |-> hasher])]
                /\ cursor' = Drop(after, value.used)
                /\ consumed' = Append(consumed,
                                      <<hasher, Take(cursor, HashBytes(hasher) + value.used)>>)
                /\ todo' = Tail(todo)
                /\ dpc' = IF Tail(todo) = <<>> THEN "keys_leftover" ELSE "keys"
                /\ UNCHANGED dresult
    /\ UNCHANGED <<strict, bytes, sig_info, storage_entry, unread, ext_bytes, is_signed>>
    /\ UNCHANGED <<runnerVars, chopperVars, toolVars>>

\* lines 108-113: leftover bytes behind the last key are an error
KeysLeftover ==
    /\ dpc = "keys_leftover"
    /\ dresult' = IF cursor # <<>> THEN "Err" ELSE "Ok"
    /\ dpc' = "done"
    /\ UNCHANGED <<strict, bytes, sig_info, storage_entry, cursor, unread, ext_bytes,
                   is_signed, todo, decoded, consumed>>
    /\ UNCHANGED <<runnerVars, chopperVars, toolVars>>

\* lines 196-198 and 219-235: decode_or_trace(cursor, value_id, type_resolver)?
DecodeValue ==
    /\ dpc = "value"
    /\ LET value == DecodeAsType(GetStorageInfo(storage_entry).value_id, cursor)
       IN  IF ~value.ok
           THEN /\ dresult' = "Err"
                /\ dpc' = "done"
                /\ UNCHANGED <<cursor, decoded, consumed>>
           ELSE /\ decoded' = [decoded EXCEPT !.value = value.val]
                /\ cursor' = Drop(cursor, value.used)
                /\ consumed' = Append(consumed, <<"value", Take(cursor, value.used)>>)
                /\ dpc' = "value_leftover"
                /\ UNCHANGED dresult
    /\ UNCHANGED <<strict, bytes, sig_info, storage_entry, unread, ext_bytes, is_signed, todo>>
    /\ UNCHANGED <<runnerVars, chopperVars, toolVars>>

\* lines 200-206: leftover bytes behind the value are an error
ValueLeftover ==
    /\ dpc = "value_leftover"
    /\ dresult' = IF cursor # <<>> THEN "Err" ELSE "Ok"
    /\ dpc' = "done"
    /\ UNCHANGED <<strict, bytes, sig_info, storage_entry, cursor, unread, ext_bytes,
                   is_signed, todo, decoded, consumed>>
    /\ UNCHANGED <<runnerVars, chopperVars, toolVars>>

StorageNext ==
    \/ StorageInfoStep
    \/ StripPrefix
    \/ DecodeKey
    \/ KeysLeftover
    \/ DecodeValue
    \/ ValueLeftover

\* one call of decode_storage_keys or of decode_storage_value
StorageSpec == StorageInit /\ [][StorageNext]_vars

(***************************************************************************)
(* get_extrinsic_info  (src/src/decoding/extrinsic_type_info.rs) and       *)
(* extend_with_metadata_info  (src/src/decoding/mod.rs)                    *)
(***************************************************************************)
\* a call or an event of a pallet with its arguments, as the metadata has it
Function(name, arguments) == [name |-> name, arguments |-> arguments]

\* the pallets metadata is made of: with calls, without calls (calls: None),
\* with an empty list of calls, and with an argument type that is no type name
PalletTemplates ==
    { [name |-> "System",
       calls |-> SomeValue(<<Function("remark", <<Arg("_remark", "Vec<u8>")>>)>>),
       event |-> SomeValue(<<Function("ExtrinsicSuccess", <<"DispatchInfo">>)>>)],
      [name |-> "Authorship", calls |-> NoValue,
       event |-> SomeValue(<<Function("Authored", <<>>)>>)],
      [name |-> "Balances",
       calls |-> SomeValue(<<Function("transfer", <<Arg("dest", "Address"),
                                                     Arg("value", "Compact<Balance>")>>),
                             Function("set_balance", <<Arg("who", "Address")>>)>>),
       event |-> SomeValue(<<Function("Transfer", <<"AccountId", "Balance">>)>>)],
      [name |-> "Sudo",
       calls |-> SomeValue(<<Function("sudo", <<Arg("proposal", "<T as Trait>")>>)>>),
       event |-> NoValue],
      [name |-> "Offences", calls |-> SomeValue(<<>>), event |-> NoValue] }

\* the metadata of a runtime: up to MaxPallets different pallets in any order;
\* their index fields (V12 on) equal to the position, above it, or in reverse
\* order; in V14 and V15 the calls type of the pallets as the type registry has
\* it, with the variant tags of the calls equal to their position or above
\* it; a field a metadata version does not have is left at one value
Metadatas ==
    { [version |-> v, modules |-> [i \in 1..n |-> [name |-> l[i].name,
                                                    calls |-> l[i].calls,
                                                    event |-> l[i].event,
                                                    index |-> CASE v = "v8_v11" -> 0
                                                                [] ix = "position" -> i - 1
                                                                [] ix = "above" -> i
                                                                [] ix = "reverse" -> n - i]],
       calls_ty |-> IF v = "v14_v15" THEN ty ELSE "variant",
       tags |-> IF v = "v14_v15" THEN tg ELSE "position"] :
        <<v, n, ix, ty, tg>> \in {"v8_v11", "v12_v13", "v14_v15"} \X (1..MaxPallets)
                                  \X {"position", "above", "reverse"}
                                  \X {"variant", "composite", "missing"}
                                  \X {"position", "above"},
        l \in [1..MaxPallets -> PalletTemplates] }

\* the metadata a runtime can have: pallets of different names
IsMetadata(md) ==
    \A i, j \in 1..Len(md.modules) : i # j => md.modules[i].name # md.modules[j].name

\* LookupName::parse(ty): the type names that parse
Parses(ty) == ty # "<T as Trait>"

\* LookupName::parse(ty).in_pallet(m_name)
InPallet(ty, m_name) == [ty |-> ty, pallet |-> m_name]

\* extrinsic_type_info.rs lines 39-41 and mod.rs lines 21-23 with no pallet
\* filtered out
AllModules(modules) == modules

\* extrinsic_type_info.rs lines 39-41, mod.rs lines 21-23:
\* modules.iter().filter(|m| m.calls.is_some())
WithCalls(modules) == SelectSeq(modules, LAMBDA m : m.calls.some)

\* lines 134-136 and 193-195 with the pallet taken by its position
FindByPosition(modules, index) ==
    IF index + 1 <= Len(modules) THEN SomeValue(modules[index + 1]) ELSE NoValue

\* lines 134-136 and 193-195: .iter().find(|m| m.index == pallet_index)
FindByIndex(modules, index) ==
    LET found == SelectSeq(modules, LAMBDA m : m.index = index)
    IN  IF found = <<>> THEN NoValue ELSE SomeValue(Head(found))

\* lines 35-72 and 132-165: the call at position call_index of pallet m; an
\* argument type that does not parse is an error
LegacyCallInfo(m, index) ==
    IF ~m.some \/ ~m.val.calls.some \/ index + 1 > Len(m.val.calls.val)
    THEN NoExtrinsicInfo
    ELSE LET call == m.val.calls.val[index + 1]
         IN  IF \E i \in 1..Len(call.arguments) : ~Parses(call.arguments[i].id)
             THEN NoExtrinsicInfo
             ELSE ExtrinsicInfo(m.val.name, call.name,
                                [i \in 1..Len(call.arguments) |->
                                    Arg(call.arguments[i].name,
                                        InPallet(call.arguments[i].id, m.val.name))])

\* the variants of the calls type of a V14 pallet: one for every call, with
\* the tag the metadata gives it
CallVariants(md, pallet) ==
    [j \in 1..Len(pallet.calls.val) |->
        [index |-> IF md.tags = "position" THEN j - 1 ELSE j,
         name |-> pallet.calls.val[j].name,
         fields |-> pallet.calls.val[j].arguments]]

\* lines 212-214 with the variant taken by its position
VariantAt(variants, index) ==
    IF index + 1 <= Len(variants) THEN SomeValue(variants[index + 1]) ELSE NoValue

\* lines 212-214: calls_enum.variants.iter().find(|v| v.index == call_index)
FindVariant(variants, index) ==
    LET found == SelectSeq(variants, LAMBDA v : v.index = index)
    IN  IF found = <<>> THEN NoValue ELSE SomeValue(Head(found))

\* lines 191-229: impl_call_arg_ids_body_for_v14_to_v15
GetExtrinsicInfoV14(md, pallet_index, call_index) ==
    LET pallet == FindByIndex(md.modules, pallet_index)
    IN  IF ~pallet.some \/ ~pallet.val.calls.some \/ md.calls_ty # "variant"
        THEN NoExtrinsicInfo
        ELSE LET call_variant == FindVariant(CallVariants(md, pallet.val), call_index)
             IN  IF ~call_variant.some
                 THEN NoExtrinsicInfo
                 ELSE ExtrinsicInfo(pallet.val.name, call_variant.val.name,
                                    call_variant.val.fields)

\* get_extrinsic_info(pallet_index, call_index) of the metadata versions:
\* lines 35-73 (V8 to V11), 131-166 (V12, V13), 191-229 (V14, V15)
GetExtrinsicInfo(md, pallet_index, call_index) ==
    CASE md.version = "v8_v11" ->
           LET with_calls == WithCalls(md.modules)
           IN  LegacyCallInfo(IF pallet_index + 1 <= Len(with_calls)
                              THEN SomeValue(with_calls[pallet_index + 1])
                              ELSE NoValue, call_index)
      [] md.version = "v12_v13" ->
           LegacyCallInfo(FindByIndex(md.modules, pallet_index), call_index)
      [] md.version = "v14_v15" ->
           GetExtrinsicInfoV14(md, pallet_index, call_index)

\* mod.rs lines 32-39 with the position used for every metadata version
PositionAsIndex(version, m_idx, module) == m_idx

\* mod.rs lines 28-39: m_idx of enumerate(), from V12 on module.index
ModuleVariantIndex(version, m_idx, module) ==
    IF version = "v12_v13" THEN module.index ELSE m_idx

Variant(index, name, fields) == [index |-> index, name |-> name, fields |-> fields]

\* mod.rs lines 16-131: the enums built from the modules that have calls: one
\* of the calls and one of the events of every module, entered under the name
\* of the module (a later module of the same name replaces an earlier one), and
\* builtin::Call and builtin::Event of the modules; an argument type that does
\* not parse is an error.  Lines 133-141: nothing is built for V14 and V15.
BuiltinTypes(md) ==
    LET modules == WithCalls(md.modules)
        with_event == SelectSeq(modules, LAMBDA m : m.event.some)
        m_idx(m) == CHOOSE i \in 1..Len(modules) : modules[i] = m
        named(list, n) == list[CHOOSE i \in 1..Len(list) :
                                 /\ list[i].name = n
                                 /\ \A j \in (i + 1)..Len(list) : list[j].name # n]
        variant_of(kind, m) ==
            Variant(ModuleVariantIndex(md.version, m_idx(m) - 1, m) % 256, m.name,
                    <<kind, m.name>>)
        keys == {<<"builtin::Call">>, <<"builtin::Event">>}
                  \cup {<<"builtin::module::call", modules[i].name>> : i \in 1..Len(modules)}
                  \cup {<<"builtin::module::event", with_event[i].name>> :
                          i \in 1..Len(with_event)}
        parse_error ==
            \E i \in 1..Len(modules) :
                \/ \E j \in 1..Len(modules[i].calls.val) :
                     \E k \in 1..Len(modules[i].calls.val[j].arguments) :
                        ~Parses(modules[i].calls.val[j].arguments[k].id)
                \/ /\ modules[i].event.some
                   /\ \E j \in 1..Len(modules[i].event.val) :
                        \E k \in 1..Len(modules[i].event.val[j].arguments) :
                           ~Parses(modules[i].event.val[j].arguments[k])
    IN  IF md.version = "v14_v15" THEN [ok |-> TRUE, types |-> <<>>]
        ELSE IF parse_error THEN NoTypes
        ELSE [ok |-> TRUE, types |-> [key \in keys |->
               CASE key = <<"builtin::Call">> ->
                      [i \in 1..Len(modules) |->
                          variant_of("builtin::module::call", modules[i])]
                 [] key = <<"builtin::Event">> ->
                      [i \in 1..Len(with_event) |->
                          variant_of("builtin::module::event", with_event[i])]
                 [] key[1] = "builtin::module::call" ->
                      LET calls == named(modules, key[2]).calls.val
                      IN  [c \in 1..Len(calls) |->
                             Variant((c - 1) % 256, calls[c].name,
                                     [a \in 1..Len(calls[c].arguments) |->
                                        Arg(calls[c].arguments[a].name,
                                            InPallet(calls[c].arguments[a].id, key[2]))])]
                 [] OTHER ->
                      LET events == named(with_event, key[2]).event.val
                      IN  [e \in 1..Len(events) |->
                             Variant((e - 1) % 256, events[e].name,
                                     [a \in 1..Len(events[e].arguments) |->
                                        InPallet(events[e].arguments[a], key[2])])]]]

\* the metadata of a spec version has been fetched, and an extrinsic with
\* these pallet and call indexes is to be decoded
LookupInit ==
    /\ RunnerIdle
    /\ ChopperIdle
    /\ DecoderIdle
    /\ metadata \in {md \in Metadatas : IsMetadata(md)}
    /\ pallet_index_arg \in 0..MaxIndex
    /\ call_index_arg \in 0..MaxIndex
    /\ lookup_pc = "extend"
    /\ info_result = NoExtrinsicInfo
    /\ new_types = NoTypes
    /\ items = <<>>
    /\ idx = 0
    /\ get_pc = [c \in Callers |-> "idle"]
    /\ got_idx = [c \in Callers |-> 0]
    /\ gets = <<>>
    /\ spec_versions = [some |-> FALSE, val |-> <<>>]
    /\ number = 0
    /\ block_number = 0
    /\ pick_pc = "idle"
    /\ starting_block_number = 0
    /\ low_version = 0
    /\ high_version = 0

\* mod.rs lines 12-144: extend_with_metadata_info(types, metadata)
ExtendWithMetadataInfo ==
    /\ lookup_pc = "extend"
    /\ new_types' = BuiltinTypes(metadata)
    /\ lookup_pc' = "call"
    /\ UNCHANGED <<metadata, pallet_index_arg, call_index_arg, info_result>>
    /\ UNCHANGED <<runnerVars, chopperVars, decoderVars, roundRobinVars, pickVars, findVars>>

\* extrinsic_type_info.rs line 10: get_extrinsic_info(pallet_index, call_index)
GetExtrinsicInfoCall ==
    /\ lookup_pc = "call"
    /\ info_result' = GetExtrinsicInfo(metadata, pallet_index_arg, call_index_arg)
    /\ lookup_pc' = "done"
    /\ UNCHANGED <<metadata, pallet_index_arg, call_index_arg, new_types>>
    /\ UNCHANGED <<runnerVars, chopperVars, decoderVars, roundRobinVars, pickVars, findVars>>

LookupNext ==
    \/ ExtendWithMetadataInfo
    \/ GetExtrinsicInfoCall

\* the types of a metadata are extended and a call is looked up in it
LookupSpec == LookupInit /\ [][LookupNext]_vars

\* ---- find_spec_changes::run (src/src/commands/find_spec_changes.rs) ------
\* lines 32-49: the blocks to search, given or the latest block of the chain,
\* with start <= end; the spec versions at both; changes = vec![].  A spec
\* version that has been left does not come back.
FindSpecChangesInit ==
    /\ RunnerIdle
    /\ DecoderIdle
    /\ pos_bits = PosBits
    /\ state_fn \in {StateOf(T) : T \in TransitionSets}
    /\ overflow_checks \in BOOLEAN
    /\ starting_block_number \in Positions
    /\ end \in Positions
    /\ starting_block_number <= end
    /\ start = starting_block_number
    /\ low_version = state_fn[starting_block_number]
    /\ high_version = state_fn[end]
    /\ changes = <<>>
    /\ loop_pc = "find_loop"
    /\ lo_in = 0
    /\ hi_in = 0
    /\ cmin = <<0, 0>>
    /\ cmax = <<0, 0>>
    /\ cst = "idle"
    /\ cmid = 0
    /\ probes = 0
    /\ items = <<>>
    /\ idx = 0
    /\ get_pc = [c \in Callers |-> "idle"]
    /\ got_idx = [c \in Callers |-> 0]
    /\ gets = <<>>
    /\ spec_versions = [some |-> FALSE, val |-> <<>>]
    /\ number = 0
    /\ block_number = 0
    /\ pick_pc = "idle"
    /\ metadata = NoMetadata
    /\ pallet_index_arg = 0
    /\ call_index_arg = 0
    /\ lookup_pc = "idle"
    /\ info_result = NoExtrinsicInfo
    /\ new_types = NoTypes

\* line 52: BinaryChopper::new((start, low_version), (end, high_version)); the
\* spec versions asked for in lines 56-59 are those of state_fn
FindNewChopper ==
    /\ loop_pc = "find_loop"
    /\ loop_pc' = "find_chopping"
    /\ lo_in' = start
    /\ hi_in' = end
    /\ cmin' = <<start, low_version>>
    /\ cmax' = <<end, high_version>>
    /\ cst' = "running"
    /\ probes' = 0
    /\ UNCHANGED <<state_fn, cmid, overflow_checks, pos_bits, start, end, changes>>
    /\ UNCHANGED <<runnerVars, decoderVars, toolVars>>

\* lines 63-71: unwrap_finished(); block_num2 != end: the change is recorded
\* and the search goes on from it
FindRecordChange ==
    /\ loop_pc = "find_chopping"
    /\ cst = "finished"
    /\ cmax[1] # end
    /\ start' = cmax[1]
    /\ low_version' = cmax[2]
    /\ changes' = Append(changes, cmax)
    /\ loop_pc' = "find_loop"
    /\ cst' = "idle"
    /\ UNCHANGED <<lo_in, hi_in, state_fn, cmin, cmax, cmid, probes,
                   overflow_checks, pos_bits, end>>
    /\ UNCHANGED <<starting_block_number, high_version>>
    /\ UNCHANGED <<runnerVars, decoderVars, roundRobinVars, pickVars, lookupVars>>

\* lines 63-67, 72-74: block_num2 == end: break
FindBreak ==
    /\ loop_pc = "find_chopping"
    /\ cst = "finished"
    /\ cmax[1] = end
    /\ loop_pc' = "find_done"
    /\ UNCHANGED <<lo_in, hi_in, state_fn, cmin, cmax, cst, cmid, probes,
                   overflow_checks, pos_bits, start, end, changes>>
    /\ UNCHANGED <<runnerVars, decoderVars, toolVars>>

FindSpecChangesNext ==
    \/ FindNewChopper
    \/ NextValue
    \/ SetStateForNextValue
    \/ FindRecordChange
    \/ FindBreak

\* one run of find_spec_changes
FindSpecChangesSpec == FindSpecChangesInit /\ [][FindSpecChangesNext]_vars

(***************************************************************************)
(* pick_pseudorandom_block  (src/src/commands/decode_storage_items.rs,     *)
(* lines 430-448)                                                          *)
(***************************************************************************)
\* the values of a block number
BlockMod == 2 ^ BlockBits

\* find_spec_changes.rs lines 143-147: struct SpecVersionUpdate
SpecVersionUpdate(block, spec_version) == [block |-> block, spec_version |-> spec_version]

\* the blocks at which the spec version of the chain changed
UpdateBlocks == {0, 1000, 3000, 4000}

\* the updates at the blocks of S as find_spec_changes prints them: in
\* increasing order of block and of spec version
UpdatesAt(S) ==
    CHOOSE l \in [1..Cardinality(S) -> {SpecVersionUpdate(b, v) : b \in S, v \in 1..Cardinality(S)}] :
        /\ \A i \in 1..Cardinality(S) : l[i].spec_version = i
        /\ \A i, j \in 1..Cardinality(S) : i < j => l[i].block < l[j].block

\* lines 81-86: no file of spec versions, or the list parsed from the file
SpecVersionFiles ==
    {NoValue} \cup {SomeValue(UpdatesAt(S)) :
                      S \in {T \in SUBSET UpdateBlocks : Cardinality(T) <= MaxUpdates}}

\* line 92: pick_pseudorandom_block(spec_versions, number)
PickInit ==
    /\ RunnerIdle
    /\ ChopperIdle
    /\ DecoderIdle
    /\ spec_versions \in SpecVersionFiles
    /\ number \in 0..MaxNumber
    /\ block_number = 0
    /\ pick_pc = "call"
    /\ items = <<>>
    /\ idx = 0
    /\ get_pc = [c \in Callers |-> "idle"]
    /\ got_idx = [c \in Callers |-> 0]
    /\ gets = <<>>
    /\ metadata = NoMetadata
    /\ pallet_index_arg = 0
    /\ call_index_arg = 0
    /\ lookup_pc = "idle"
    /\ info_result = NoExtrinsicInfo
    /\ new_types = NoTypes
    /\ starting_block_number = 0
    /\ low_version = 0
    /\ high_version = 0

\* lines 435-437: without spec versions the number is the block, return number as u32
PickNumber ==
    /\ pick_pc = "call"
    /\ ~spec_versions.some
    /\ block_number' = number % BlockMod
    /\ pick_pc' = "returned"
    /\ UNCHANGED <<spec_versions, number>>
    /\ UNCHANGED <<runnerVars, chopperVars, decoderVars, roundRobinVars, lookupVars, findVars>>

\* lines 443-447: the update number % len, moved 1001 blocks forward for every
\* round through the list.  The remainder by the length of an empty list
\* panics; a sum that does not fit the block number panics in a build with
\* overflow checks and wraps in a build without.
PickBlock ==
    /\ pick_pc = "call"
    /\ spec_versions.some
    /\ LET len == Len(spec_versions.val)
       IN  IF len = 0
           THEN pick_pc' = "panicked" /\ UNCHANGED block_number
           ELSE LET spec_version_idx == number % len
                    spec_version_block_idx == (number \div len) * 1001
                    sum == spec_versions.val[spec_version_idx + 1].block
                             + (spec_version_block_idx % BlockMod)
                IN  \/ /\ sum >= BlockMod
                       /\ pick_pc' = "panicked"
                       /\ UNCHANGED block_number
                    \/ /\ block_number' = sum % BlockMod
                       /\ pick_pc' = "returned"
    /\ UNCHANGED <<spec_versions, number>>
    /\ UNCHANGED <<runnerVars, chopperVars, decoderVars, roundRobinVars, lookupVars, findVars>>

PickNext ==
    \/ PickNumber
    \/ PickBlock

\* one call of pick_pseudorandom_block
PickSpec == PickInit /\ [][PickNext]_vars

(***************************************************************************)
(* RoundRobin  (src/src/utils/runner.rs, lines 133-153)                    *)
(***************************************************************************)
\* the lists a RoundRobin is built from: the first urls of a list of nodes
ItemLists == {Take(<<"url_a", "url_b", "url_c", "url_d">>, n) : n \in 1..MaxItems}

\* lines 142-147: RoundRobin::new(items); every worker holds the selector or a
\* clone of it, and all of them share idx
RoundRobinInit ==
    /\ RunnerIdle
    /\ ChopperIdle
    /\ DecoderIdle
    /\ items \in ItemLists
    /\ idx = 0
    /\ get_pc = [c \in Callers |-> "idle"]
    /\ got_idx = [c \in Callers |-> 0]
    /\ gets = <<>>
    /\ spec_versions = [some |-> FALSE, val |-> <<>>]
    /\ number = 0
    /\ block_number = 0
    /\ pick_pc = "idle"
    /\ metadata = NoMetadata
    /\ pallet_index_arg = 0
    /\ call_index_arg = 0
    /\ lookup_pc = "idle"
    /\ info_result = NoExtrinsicInfo
    /\ new_types = NoTypes
    /\ starting_block_number = 0
    /\ low_version = 0
    /\ high_version = 0

\* line 149: let idx = self.idx.fetch_add(1, Ordering::Relaxed), one atomic step
GetFetchAdd(c) ==
    /\ get_pc[c] = "idle"
    /\ idx < MaxGets
    /\ got_idx' = [got_idx EXCEPT ![c] = idx]
    /\ idx' = idx + 1
    /\ get_pc' = [get_pc EXCEPT ![c] = "fetched"]
    /\ UNCHANGED <<items, gets>>
    /\ UNCHANGED <<runnerVars, chopperVars, decoderVars, pickVars, lookupVars, findVars>>

\* line 150 with the cursor clamped to the last item instead of reduced
ItemIndexClamped(i, len) == Min(i, len - 1)

\* line 150: let n = idx % self.items.len()
ItemIndex(i, len) == i % len

\* lines 150-151: &self.items[n]
GetItem(c) ==
    /\ get_pc[c] = "fetched"
    /\ LET n == ItemIndex(got_idx[c], Len(items))
       IN  gets' = Append(gets, [caller |-> c, idx |-> got_idx[c], n |-> n,
                                  item |-> items[n + 1]])
    /\ get_pc' = [get_pc EXCEPT ![c] = "idle"]
    /\ UNCHANGED <<items, idx, got_idx>>
    /\ UNCHANGED <<runnerVars, chopperVars, decoderVars, pickVars, lookupVars, findVars>>

RoundRobinNext ==
    \/ \E c \in Callers : GetFetchAdd(c)
    \/ \E c \in Callers : GetItem(c)

\* concurrent calls of get on one selector and its clones
RoundRobinSpec == RoundRobinInit /\ [][RoundRobinNext]_vars


(***************************************************************************)
(* Claims about Runner::run                                                *)
(***************************************************************************)
\* the task numbers start, start+1, ..., start+n-1 in order
Consecutive(n) == [i \in 1..n |-> starting_task_number + i - 1]

\* C1: output_fn is invoked on outputs in strictly increasing task-number order
\* beginning at starting_task_number, each number one greater than the previous
\* one, never twice for a number, and only by the collecting loop; an output that
\* is not the next expected one stays in the buffer until its predecessors have
\* been emitted.
C1_OrderedEmit ==
    /\ emit_calls = Consecutive(Len(emit_calls))
    /\ Len(emit_calls) =
         (output_task_number - starting_task_number)
           + (IF run_result = "Err" THEN 1 ELSE 0)
    /\ main_pc = "emit" =>
         /\ cur_output = output_task_number
         /\ cur_output \notin Range(emit_calls)
    /\ \A n \in outputs :
         /\ n \notin Range(emit_calls)
         /\ n >= output_task_number
         /\ main_pc \in {"recv", "emit"} => n > output_task_number

\* an output is being emitted while its successor waits in the buffer
C1_Witness ==
    /\ main_pc = "emit"
    /\ (cur_output + 1) \in outputs

\* C9: the numbers handed out by the shared counter are exactly
\* starting_task_number, starting_task_number+1, ... with none skipped, and no
\* number is handed to two workers.
C9_SharedCounter ==
    /\ \A i \in 1..Len(claimed) : claimed[i][2] = starting_task_number + i - 1
    /\ next_task_num = starting_task_number + Len(claimed)
    /\ \A v, w \in Workers :
         (v # w /\ wpc[v] \notin {"unspawned", "start"}
                /\ wpc[w] \notin {"unspawned", "start"})
           => current_task_num[v] # current_task_num[w]

\* two workers have drawn interleaved numbers from the counter
C9_Witness ==
    /\ Len(claimed) >= 4
    /\ claimed[1][1] # claimed[2][1]
    /\ claimed[3][1] = claimed[2][1]
    /\ claimed[4][1] = claimed[1][1]

\* C2: with at least one worker, init eventually succeeding, every task number
\* below N eventually succeeding, every task number from N on reporting "no more
\* work" and output_fn never failing, output_fn is invoked exactly N times, for
\* the N task numbers in order, and run returns Ok.
C2_BoundedRunCompletes ==
    (num_tasks >= 1) =>
        <>[](run_result = "Ok" /\ emit_calls = Consecutive(num_work))

\* a run of MaxWorkers workers over MaxTasks task numbers has returned Ok, the
\* first two outputs having been produced by different workers
C2_Witness ==
    /\ run_result = "Ok"
    /\ num_tasks = MaxWorkers
    /\ num_work = MaxTasks
    /\ starting_task_number = MaxStart
    /\ Len(emit_calls) = MaxTasks
    /\ claimed[1][1] # claimed[2][1]

\* C3: when run returns Ok, every worker has exited and every output a worker
\* sent has been passed to output_fn; none is left in the reorder buffer.
C3_OkMeansAllEmitted ==
    run_result = "Ok" =>
        /\ \A w \in Workers : wpc[w] = "done"
        /\ sent \subseteq Range(emit_calls)
        /\ outputs = {}

C5_ExactlyOneInit ==
    \A w \in Workers :
        (wpc[w] = "task" /\ streak[w] = MAX_RETRIES + 1)
          => reinits[w] = 1 /\ task_retries[w] = 0

\* C5 as amended: no init call is made before the ceiling is exceeded; after
\* that the task is attempted again only after init calls of which exactly the
\* last one succeeded (one call, plus one for every init call that returned an
\* error), with the retry counter back at zero.
C5_ReinitAfterCeiling ==
    \A w \in Workers :
        /\ streak[w] <= MAX_RETRIES => reinits[w] = 0
        /\ (wpc[w] = "task" /\ streak[w] = MAX_RETRIES + 1)
             => /\ reinits[w] = 1 + reinit_errs[w]
                /\ last_init[w] = "Some"
                /\ task_retries[w] = 0

\* a task is about to be attempted on a fresh session obtained at the first try
C5_Witness ==
    \E w \in Workers :
        /\ wpc[w] = "task"
        /\ streak[w] = MAX_RETRIES + 1
        /\ reinits[w] = 1
        /\ task_retries[w] = 0

\* C6: a failing output_fn is fatal: run returns the error at once, output_fn
\* is not invoked again, every worker eventually stops; run returns an error
\* for no other reason.
C6_EmitErrorFatal ==
    /\ [](emit_errs > 0 => (emit_errs = 1 /\ run_result = "Err" /\ main_pc = "done"))
    /\ [](run_result = "Err" => emit_errs = 1)
    /\ [][run_result = "Err" => emit_calls' = emit_calls]_vars
    /\ (run_result = "Err") ~> (\A w \in Workers : wpc[w] = "done")

\* run has returned the error of output_fn while an output was buffered and a
\* worker was still running a task
C6_Witness ==
    /\ run_result = "Err"
    /\ Len(emit_calls) >= 2
    /\ \E w \in Workers : wpc[w] = "task"

\* C7 as stated: once the receiver is dropped no worker claims a further task number.
C7_NoClaimAfterClose == \A w \in Workers : late_claims[w] = 0

\* C7 as amended: once the receiver is dropped nothing is queued or emitted any
\* more (an output completing later is dropped), and each worker claims at most
\* one further task number, after which it is running that task, failing to send
\* its output, at the head of its outer loop or stopped.
C7_ClosedStopsOutput ==
    /\ rx_closed => (chan = <<>> /\ main_pc = "done")
    /\ \A w \in Workers :
         /\ late_claims[w] <= 1
         /\ late_claims[w] = 1 =>
              /\ rx_closed
              /\ wpc[w] \in {"task", "send", "outer", "done"}
              /\ current_task_num[w] \notin sent
    /\ run_result = "Err" => Len(emit_calls) = output_task_number - starting_task_number + 1

\* a worker has claimed a task number after the receiver was dropped and now
\* fails to send its output
C7_Witness ==
    \E w \in Workers :
        /\ late_claims[w] = 1
        /\ wpc[w] = "send"

\* C8: after an init error the worker invokes init again (or stops, once the
\* receiver is dropped) and runs no task before an init call has succeeded;
\* after init reports "no more work" the worker has stopped for good.
C8_InitHandling ==
    \A w \in Workers :
        /\ last_init[w] = "Err" =>
             \/ wpc[w] \in {"outer", "init"}
             \/ wpc[w] = "done" /\ rx_closed
        /\ last_init[w] = "None" => wpc[w] = "done"
        /\ wpc[w] \in {"task", "send", "fetch"} => last_init[w] = "Some"

\* init is being invoked again after it returned an error during a retry
C8_Witness ==
    \E w \in Workers :
        /\ wpc[w] = "init"
        /\ last_init[w] = "Err"
        /\ reinit_errs[w] = MaxInitErrs
        /\ ~rx_closed


(***************************************************************************)
(* Claims about BinaryChopper                                              *)
(***************************************************************************)
\* c is the one transition point of state_fn in lo_in..hi_in
OneTransitionAt(c) ==
    /\ lo_in < c
    /\ c <= hi_in
    /\ \A p \in lo_in..(c - 1) : state_fn[p] = state_fn[lo_in]
    /\ \A p \in c..hi_in : state_fn[p] = state_fn[hi_in]
    /\ state_fn[lo_in] # state_fn[hi_in]

\* C10: for lo < hi and a state function with exactly one transition point c
\* in lo..hi, driving the chopper with the true states ends in Finished with
\* min = (c-1, state(c-1)) and max = (c, state(c)): the run does not end in a
\* panic, does not go on probing for longer than there are positions, and is
\* Finished with these bounds only.
C10_Converges ==
    \A c \in Positions :
        OneTransitionAt(c) =>
            /\ cst # "panicked"
            /\ probes < PosMod
            /\ cst = "finished" =>
                 /\ cmin = <<c - 1, state_fn[c - 1]>>
                 /\ cmax = <<c, state_fn[c]>>

\* C10 where no sum of two positions overflows (hi at most half the range of
\* the position type): the chopper stops only in Finished with the boundary
C10_ConvergesBelowHalf ==
    \A c \in Positions :
        (OneTransitionAt(c) /\ 2 * hi_in <= PosMod) =>
            /\ cst # "panicked"
            /\ cst = "needs" => (cmin[1] < cmid /\ cmid < cmax[1])
            /\ probes < PosMod
            /\ cst = "finished" =>
                 /\ cmin = <<c - 1, state_fn[c - 1]>>
                 /\ cmax = <<c, state_fn[c]>>

\* the adjacent positions i, i+1 of the vector with the versions found there
AdjacentPair(i) == <<<<i, state_fn[i]>>, <<i + 1, state_fn[i + 1]>>>>

\* the positions of the vector after which the version changes
Boundaries == {i \in 0..(end - 1) : state_fn[i] # state_fn[i + 1]}

\* what the assertion of test_going_higher expects (lines 120-129)
TestChanges ==
    << <<<<2, 0>>, <<3, 1>>>>, <<<<6, 1>>, <<7, 2>>>>, <<<<7, 2>>, <<8, 3>>>>,
       <<<<8, 3>>, <<9, 4>>>>, <<<<10, 4>>, <<11, 5>>>> >>

\* C11 as stated: for a vector in which equal versions form contiguous runs,
\* chopping (start, end) to Finished and restarting from the upper position found
\* until start = end yields, in increasing order, exactly the adjacent pairs
\* (i, i+1) whose versions differ; for [0,0,0,1,1,1,1,2,3,4,4,5] these are
\* (2,3),(6,7),(7,8),(8,9),(10,11).
C11_ExactlyTheTransitions ==
    loop_pc = "done" =>
        /\ \A k \in 1..Len(changes) :
             \E i \in Boundaries : changes[k] = AdjacentPair(i)
        /\ \A k \in 1..(Len(changes) - 1) : changes[k][1][1] < changes[k + 1][1][1]
        /\ \A i \in Boundaries : \E k \in 1..Len(changes) : changes[k] = AdjacentPair(i)
        /\ state_fn = TestVersions => changes = TestChanges

\* C11, amended: the loop yields, in increasing order, every adjacent pair
\* whose versions differ, each with the versions found at its two positions, and
\* after them the pair (end-1, end) once more when the vector has more than one
\* element and its last two versions are equal; a pair of equal versions is
\* yielded in no other case; for [0,0,0,1,1,1,1,2,3,4,4,5] the result is exactly
\* (2,3),(6,7),(7,8),(8,9),(10,11).
C11_TransitionsThenLastPair ==
    /\ \A k \in 1..Len(changes) :
         \E i \in 0..(end - 1) :
            /\ changes[k] = AdjacentPair(i)
            /\ i \in Boundaries \/ (i = end - 1 /\ k = Len(changes) /\ start = end)
    /\ \A k \in 1..(Len(changes) - 1) : changes[k][1][1] < changes[k + 1][1][1]
    /\ loop_pc = "done" =>
         /\ \A i \in Boundaries : \E k \in 1..Len(changes) : changes[k] = AdjacentPair(i)
         /\ (end > 0 /\ state_fn[end - 1] = state_fn[end]) =>
               changes[Len(changes)] = AdjacentPair(end - 1)
         /\ state_fn = TestVersions => changes = TestChanges

\* the loop has gone through the vector of the test and has found its five changes
C11_Witness ==
    /\ loop_pc = "done"
    /\ state_fn = TestVersions
    /\ Len(changes) = 5
    /\ changes[5] = <<<<10, 4>>, <<11, 5>>>>

\* the loop has ended on a vector whose last two versions are equal
C11_LastPairWitness ==
    /\ loop_pc = "done"
    /\ end > 0
    /\ state_fn[end - 1] = state_fn[end]
    /\ Boundaries # {}


CeilLog2(n) == CHOOSE k \in 0..pos_bits : 2 ^ k >= n /\ \A j \in 0..(k - 1) : 2 ^ j < n

\* C13: for any lo < hi and any state function the chopper reaches Finished
\* after at most ceil(log2(hi - lo)) NeedsState probes, every probe position
\* lying strictly between the bounds.
C13_LogarithmicProbes ==
    lo_in < hi_in =>
        /\ cst # "panicked"
        /\ probes <= CeilLog2(hi_in - lo_in)
        /\ cst = "needs" => (cmin[1] < cmid /\ cmid < cmax[1])

\* C13 where no sum of two positions overflows
C13_LogarithmicProbesBelowHalf ==
    (lo_in < hi_in /\ 2 * hi_in <= PosMod) =>
        /\ cst # "panicked"
        /\ probes <= CeilLog2(hi_in - lo_in)
        /\ cst = "needs" => (cmin[1] < cmid /\ cmid < cmax[1])

\* the stored bounds are a real boundary of the state function within lo..hi
RealBoundary ==
    /\ cmin[1] + 1 = cmax[1]
    /\ lo_in <= cmin[1]
    /\ cmin[1] < hi_in
    /\ state_fn[cmin[1]] # state_fn[cmax[1]]
    /\ cmin[2] = state_fn[cmin[1]]
    /\ cmax[2] = state_fn[cmax[1]]

\* C14: for any state function on lo..hi with state(lo) # state(hi) the run ends
\* in Finished with adjacent positions p, p+1, lo <= p < hi, whose states differ
\* and are stored as they are; during the run the low position never decreases,
\* the high position never increases and the two stored states stay different.
C14_OneRealBoundary ==
    /\ [](  (lo_in < hi_in /\ state_fn[lo_in] # state_fn[hi_in]) =>
              /\ cst # "panicked"
              /\ probes < PosMod
              /\ cst = "finished" => RealBoundary
              /\ cmin[2] # cmax[2] )
    /\ [][ (lo_in < hi_in /\ state_fn[lo_in] # state_fn[hi_in]) =>
              (cmin'[1] >= cmin[1] /\ cmax'[1] <= cmax[1]) ]_vars

\* C14 where no sum of two positions overflows
C14_OneRealBoundaryBelowHalf ==
    /\ [](  (lo_in < hi_in /\ 2 * hi_in <= PosMod
                /\ state_fn[lo_in] # state_fn[hi_in]) =>
              /\ cst # "panicked"
              /\ probes < PosMod
              /\ cst = "finished" => RealBoundary
              /\ cmin[2] # cmax[2] )
    /\ [][ (lo_in < hi_in /\ 2 * hi_in <= PosMod
                /\ state_fn[lo_in] # state_fn[hi_in]) =>
              (cmin'[1] >= cmin[1] /\ cmax'[1] <= cmax[1]) ]_vars


(***************************************************************************)
(* Claims about the decoders                                               *)
(***************************************************************************)
\* the bytes of the parts read, one behind the other
RECURSIVE PartBytes(_)
PartBytes(parts) ==
    IF parts = <<>> THEN <<>> ELSE Head(parts)[2] \o PartBytes(Tail(parts))

\* the names of the parts read, and of declared arguments
PartNames(parts) == [i \in 1..Len(parts) |-> parts[i][1]]

ArgNames(declared) == [i \in 1..Len(declared) |-> declared[i].name]

\* C15: every successful decode (decode_extrinsic, decode_storage_keys,
\* decode_storage_value) has consumed its input exactly, with zero bytes
\* remaining, so that a valid encoding followed by a non-empty suffix is an error.
C15_NoLeftover ==
    dresult = "Ok" => (cursor = <<>> /\ unread = <<>>)

\* C15 for decode_extrinsic of decoding/extrinsic_decoder.rs: the length prefix,
\* the envelope byte and the parts read make up the whole input
C15_NoLeftoverStrict ==
    (strict /\ dresult = "Ok") =>
        /\ cursor = <<>>
        /\ unread = <<>>
        /\ bytes = CompactEncode(Len(ext_bytes)) \o Take(ext_bytes, 1) \o PartBytes(consumed)

\* C15 for decode_storage_keys and decode_storage_value: the parts read make up
\* the whole input
C15_NoLeftoverStorage ==
    dresult = "Ok" => (cursor = <<>> /\ bytes = PartBytes(consumed))

\* decode_storage_keys has returned the keys
KeysDecoded ==
    /\ dresult = "Ok"
    /\ consumed # <<>>
    /\ consumed[1][1] = "prefix"

\* C16: in every successfully decoded storage key, a component with a one-way
\* hasher (Blake2_128, Twox128: 16 hash bytes; Blake2_256, Twox256: 32 hash
\* bytes) carries hash bytes and no decoded value, a component with a reversible
\* hasher (Blake2_128Concat: 16 hash bytes, Twox64Concat: 8, Identity: none)
\* carries a decoded value, and the components appear in the order declared by
\* the storage info, each taken from the bytes behind the previous one.
C16_KeyComponents ==
    KeysDecoded =>
        LET declared == GetStorageInfo(storage_entry).keys
        IN  /\ Len(decoded.keys) = Len(declared)
            /\ bytes = PartBytes(consumed)
            /\ \A i \in 1..Len(declared) :
                 LET k == decoded.keys[i]
                     part == consumed[i + 1][2]
                 IN  /\ k.hasher = declared[i].hasher
                     /\ k.hash = Take(part, Len(k.hash))
                     /\ k.hasher \in {"Blake2_128", "Twox128"} =>
                          (Len(k.hash) = 16 /\ ~k.value.some /\ Len(part) = 16)
                     /\ k.hasher \in {"Blake2_256", "Twox256"} =>
                          (Len(k.hash) = 32 /\ ~k.value.some /\ Len(part) = 32)
                     /\ k.hasher = "Blake2_128Concat" => (Len(k.hash) = 16 /\ k.value.some)
                     /\ k.hasher = "Twox64Concat" => (Len(k.hash) = 8 /\ k.value.some)
                     /\ k.hasher = "Identity" => (Len(k.hash) = 0 /\ k.value.some)
                     /\ k.value.some =>
                          LET v == DecodeAsType(declared[i].key_id, Drop(part, Len(k.hash)))
                          IN  v.ok /\ v.val = k.value.val /\ v.used = Len(part) - Len(k.hash)

\* a key of a one-way and a reversible component has been decoded
C16_Witness ==
    /\ KeysDecoded
    /\ Len(decoded.keys) = 2
    /\ decoded.keys[1].hasher = "Blake2_256"
    /\ decoded.keys[2].hasher = "Twox64Concat"
    /\ decoded.keys[2].value.some

\* the entry has several keys: an NMap, or a Map of V14 / V15 keyed by a tuple
SeveralKeys ==
    \/ storage_entry.kind = "NMap"
    \/ storage_entry.kind = "MapV14" /\ storage_entry.key_ty = "tuple"

C18_EnvelopeByte ==
    /\ [][ dpc = "version" =>
             IF ext_bytes[1] % 128 = 4
             THEN dpc' = "v4" /\ dresult' = "running"
             ELSE dresult' = "Err" ]_vars
    /\ [](dpc \in {"address", "signature", "signed_exts"} => ext_bytes[1] >= 128)
    /\ [](dpc \in {"pallet_index", "call_index", "args", "leftover"} =>
             (is_signed <=> ext_bytes[1] >= 128))
    /\ [](dresult = "Ok" => ext_bytes[1] % 128 = 4)

\* a body whose first byte is 0x84 has been decoded as a version 4 extrinsic
C18_Witness ==
    /\ dresult = "Ok"
    /\ ext_bytes[1] = 132
    /\ is_signed

\* C19: decode_extrinsic first reads a compact length L; it returns an error
\* when fewer than L bytes follow the prefix, in strict mode when the number of
\* bytes that follow is not exactly L, and when L = 0; otherwise the body is the
\* L bytes behind the prefix.
C19_LengthPrefix ==
    [][ dpc = "length" =>
          LET len == CompactDecode(bytes)
              follow == Len(bytes) - len.used
              L == len.val
          IN  /\ ~len.ok => dresult' = "Err"
              /\ (len.ok /\ follow < L) => dresult' = "Err"
              /\ (len.ok /\ strict /\ follow # L) => dresult' = "Err"
              /\ (len.ok /\ L = 0) => dresult' = "Err"
              /\ (len.ok /\ L >= 1 /\ follow >= L /\ (strict => follow = L)) =>
                   /\ dresult' = "running"
                   /\ ext_bytes' = SubSeq(bytes, len.used + 1, len.used + L)
      ]_vars

\* the strict decoder has refused a body that is followed by one more byte
C19_Witness ==
    /\ strict
    /\ dresult = "Err"
    /\ ext_bytes = <<>>
    /\ CompactDecode(bytes).ok
    /\ CompactDecode(bytes).val >= 1
    /\ Len(bytes) - CompactDecode(bytes).used = CompactDecode(bytes).val + 1

\* the parts of a version 4 extrinsic in the order they are read
ExpectedParts ==
    (IF ext_bytes[1] >= 128
     THEN <<"address", "signature">> \o ArgNames(sig_info.signed_extension_ids)
     ELSE <<>>)
    \o <<"pallet_index", "call_index">>
    \o ArgNames(ExtrinsicInfoOf(decoded.pallet_index, decoded.call_index).args)

\* C20: a successful decode yields the Signed variant exactly when the signed
\* flag is set and the Unsigned variant exactly when it is clear; the bytes are
\* consumed in the order address, signature, each declared signed extension in
\* schema order (these only when signed), pallet index byte, call index byte, each
\* declared argument in order, and the decoded extensions and arguments appear in
\* the result in that order.
C20_SequenceAndVariant ==
    /\ dresult # "Ok" => decoded.variant = "none"
    /\ dresult = "Ok" =>
         LET signed == ext_bytes[1] >= 128
             exts == IF signed THEN sig_info.signed_extension_ids ELSE <<>>
             args == ExtrinsicInfoOf(decoded.pallet_index, decoded.call_index).args
             first_ext == 2
             first_arg == Len(consumed) - Len(args)
         IN  /\ decoded.variant = (IF signed THEN "V4Signed" ELSE "V4Unsigned")
             /\ PartNames(consumed) = ExpectedParts
             /\ PartBytes(consumed) = Drop(ext_bytes, 1)
             /\ signed => decoded.address.of = consumed[1][2]
             /\ signed => decoded.signature.of = consumed[2][2]
             /\ Len(decoded.signed_exts) = Len(exts)
             /\ \A i \in 1..Len(exts) :
                  /\ decoded.signed_exts[i][1] = exts[i].name
                  /\ decoded.signed_exts[i][2] =
                       DecodeAsType(exts[i].id, consumed[first_ext + i][2]).val
             /\ <<decoded.pallet_index>> = consumed[first_arg - 1][2]
             /\ <<decoded.call_index>> = consumed[first_arg][2]
             /\ Len(decoded.args) = Len(args)
             /\ \A i \in 1..Len(args) :
                  /\ decoded.args[i][1] = args[i].name
                  /\ decoded.args[i][2] =
                       DecodeAsType(args[i].id, consumed[first_arg + i][2]).val

\* a signed extrinsic with two signed extensions and two arguments has been decoded
C20_Witness ==
    /\ dresult = "Ok"
    /\ decoded.variant = "V4Signed"
    /\ Len(decoded.signed_exts) = 2
    /\ Len(decoded.args) = 2
    /\ Len(consumed) = 8


\* ---- C25 -----------------------------------------------------------------
\* C25 as stated: every call of set_state_for_next_value changes exactly one
\* bound, the bound it changes is one whose stored state differs from the
\* supplied state, and a bound whose stored state equals the supplied state is
\* left unchanged.
C25_ChangesDivergingBound ==
    [][ cst = "needs" =>
          LET state == state_fn[cmid]
          IN  /\ (cmin' # cmin) # (cmax' # cmax)
              /\ cmin' # cmin => cmin[2] # state
              /\ cmax' # cmax => cmax[2] # state
              /\ cmin[2] = state => cmin' = cmin
              /\ cmax[2] = state => cmax' = cmax
      ]_vars

\* C25, amended: every call of set_state_for_next_value replaces exactly one
\* bound by (mid, state): the low bound when the supplied state equals the
\* state stored with the low bound, and the high bound otherwise; the other
\* bound is left as it was, so a high bound whose state differs from the
\* supplied one stays when the low bound's state equals it.  When the low
\* position is below the high position and their sum fits the position type,
\* the new position lies strictly between the two, so exactly one bound
\* changes and the interval narrows.
C25_ReplacesMatchingLowBound ==
    [][ cst = "needs" =>
          LET state == state_fn[cmid]
              mid == ((cmin[1] + cmax[1]) % PosMod) \div 2
          IN  /\ state = cmin[2] => (cmin' = <<mid, state>> /\ cmax' = cmax)
              /\ state # cmin[2] => (cmax' = <<mid, state>> /\ cmin' = cmin)
              /\ (cmin[1] < cmax[1] /\ cmin[1] + cmax[1] < PosMod) =>
                    /\ cmin[1] < mid /\ mid < cmax[1]
                    /\ (cmin' # cmin) # (cmax' # cmax)
                    /\ cmin[1] <= cmin'[1] /\ cmax'[1] <= cmax[1]
      ]_vars

\* set_state_for_next_value has replaced the low bound in one call and the
\* high bound in another
C25_Witness ==
    /\ cst = "running"
    /\ probes >= 2
    /\ lo_in < hi_in
    /\ lo_in < cmin[1]
    /\ cmax[1] < hi_in
    /\ cmin[1] < cmax[1]

\* ---- C26 -----------------------------------------------------------------
\* C26: a worker draws a new number from the shared counter only after the
\* output for its current number has been sent, and keeps its number across
\* task retries, session re-initialisations and failed inits: every number a
\* worker claimed earlier has been sent, and a worker stops with an unsent
\* number only when init or the task reported "no more work" or the receiver
\* is gone, never because init or the task returned an error.
C26_HoldsNumber ==
    /\ [](\A i \in 1..Len(claimed) :
            claimed[i][2] # current_task_num[claimed[i][1]] => claimed[i][2] \in sent)
    /\ [][ \A w \in Workers :
             /\ (wpc[w] \notin {"unspawned", "start"}
                    /\ current_task_num'[w] # current_task_num[w]) =>
                  /\ wpc[w] = "fetch"
                  /\ current_task_num[w] \in sent
                  /\ current_task_num'[w] = next_task_num
             /\ (wpc[w] = "init" /\ wpc'[w] = "done") => last_init'[w] = "None"
             /\ (wpc[w] = "task" /\ wpc'[w] = "done") =>
                  (task_retries'[w] = task_retries[w] /\ streak'[w] = streak[w])
             /\ (wpc[w] \in {"outer", "send"} /\ wpc'[w] = "done") => rx_closed
             /\ (wpc[w] \in {"task", "init"} /\ wpc'[w] \in {"task", "init", "outer"}) =>
                  current_task_num'[w] = current_task_num[w]
       ]_vars

\* a worker has sent the output for a number that went through task retries,
\* a discarded session and a failed init, and is about to draw its next number
C26_Witness ==
    \E w \in Workers :
        /\ wpc[w] = "fetch"
        /\ current_task_num[w] \in sent
        /\ streak[w] > MAX_RETRIES
        /\ reinit_errs[w] >= 1

\* ---- C28 -----------------------------------------------------------------
\* the decoding of the address, and of the signature behind the bytes taken
\* for the address, against the types get_signature_info names
AddressDecodes == DecodeAsType(sig_info.address_id, Drop(ext_bytes, 1)).ok

SignatureDecodes ==
    /\ Len(consumed) >= 2
    /\ consumed[1][1] = "address"
    /\ DecodeAsType(sig_info.signature_id,
                    Drop(ext_bytes, 1 + Len(consumed[1][2]))).ok

\* C28: a signed extrinsic whose address bytes or signature bytes do not decode
\* against the declared address or signature type makes decode_extrinsic
\* return an error, so a Signed result is produced only after both decoded.
C28_FailedDecodeIsError ==
    (strict /\ dresult = "Ok" /\ is_signed) => (AddressDecodes /\ SignatureDecodes)

\* ---- C21, C22, C23 --------------------------------------------------------
\* the positions of the pallets that declare calls
Declaring == {k \in 1..Len(metadata.modules) : metadata.modules[k].calls.some}

\* the arguments of a call as get_extrinsic_info of V8 to V13 returns them
LegacyArgs(pallet, call) ==
    [i \in 1..Len(call.arguments) |->
        [name |-> call.arguments[i].name,
         id |-> [ty |-> call.arguments[i].id, pallet |-> pallet.name]]]

\* info_result is the call at position call_index_arg of the pallet at position
\* k of the metadata, provided the types of its arguments parse
IsLegacyCallOf(k) ==
    LET pallet == metadata.modules[k]
    IN  /\ pallet.calls.some
        /\ call_index_arg + 1 <= Len(pallet.calls.val)
        /\ LET call == pallet.calls.val[call_index_arg + 1]
           IN  /\ \A i \in 1..Len(call.arguments) : call.arguments[i].id # "<T as Trait>"
               /\ info_result = [ok |-> TRUE, pallet_name |-> pallet.name,
                                 call_name |-> call.name,
                                 args |-> LegacyArgs(pallet, call)]

\* C21: in metadata V8 to V11 get_extrinsic_info(pallet_index, call_index)
\* selects the pallet that is at position pallet_index among the pallets that
\* declare calls, in declaration order, and the call at position call_index of
\* it; it returns an error when fewer than pallet_index + 1 pallets declare
\* calls or the call index is out of range.
C21_PositionAmongDeclaring ==
    (lookup_pc = "done" /\ metadata.version = "v8_v11") =>
        LET selected == {k \in Declaring :
                           Cardinality({j \in Declaring : j < k}) = pallet_index_arg}
        IN  /\ info_result.ok => \E k \in selected : IsLegacyCallOf(k)
            /\ Cardinality(Declaring) < pallet_index_arg + 1 => ~info_result.ok
            /\ \A k \in selected :
                 /\ call_index_arg >= Len(metadata.modules[k].calls.val) => ~info_result.ok
                 /\ ~info_result.ok =>
                      \/ call_index_arg >= Len(metadata.modules[k].calls.val)
                      \/ \E i \in 1..Len(metadata.modules[k].calls.val[call_index_arg + 1].arguments) :
                           metadata.modules[k].calls.val[call_index_arg + 1].arguments[i].id
                              = "<T as Trait>"

\* a call has been found in a pallet whose position among all pallets is not
\* pallet_index, a pallet without calls being declared before it
C21_Witness ==
    /\ lookup_pc = "done"
    /\ metadata.version = "v8_v11"
    /\ info_result.ok
    /\ pallet_index_arg + 1 <= Len(metadata.modules)
    /\ metadata.modules[pallet_index_arg + 1].name # info_result.pallet_name
    /\ \E k \in 1..Len(metadata.modules) : ~metadata.modules[k].calls.some

\* C22: in metadata V12 to V15 get_extrinsic_info(pallet_index, call_index)
\* selects the pallet whose index field equals pallet_index, whatever its
\* position, and returns an error when no pallet has that index or the pallet
\* selected declares no calls.
C22_ByIndexField ==
    (lookup_pc = "done" /\ metadata.version \in {"v12_v13", "v14_v15"}) =>
        LET selected == {k \in 1..Len(metadata.modules) :
                           metadata.modules[k].index = pallet_index_arg}
        IN  /\ info_result.ok =>
                 \E k \in selected :
                    /\ info_result.pallet_name = metadata.modules[k].name
                    /\ metadata.modules[k].calls.some
                    /\ metadata.version = "v12_v13" => IsLegacyCallOf(k)
            /\ selected = {} => ~info_result.ok
            /\ (\E k \in selected : ~metadata.modules[k].calls.some) => ~info_result.ok

\* a call has been found in a pallet whose position is not pallet_index, while
\* the pallet at that position declares calls too
C22_Witness ==
    /\ lookup_pc = "done"
    /\ metadata.version \in {"v12_v13", "v14_v15"}
    /\ info_result.ok
    /\ pallet_index_arg + 1 <= Len(metadata.modules)
    /\ metadata.modules[pallet_index_arg + 1].calls.some
    /\ metadata.modules[pallet_index_arg + 1].name # info_result.pallet_name

\* the variant tag the metadata gives to the call at position j of a pallet
TagOf(j) == IF metadata.tags = "position" THEN j - 1 ELSE j

\* C23: in metadata V14 and V15 the call is the variant of the pallet's calls
\* type whose tag equals call_index, not the variant at position call_index;
\* its arguments are the fields of that variant in declaration order; an error
\* is returned when the calls type is not a variant type or no variant has
\* that tag.
C23_ByVariantTag ==
    (lookup_pc = "done" /\ metadata.version = "v14_v15") =>
        LET selected == {k \in 1..Len(metadata.modules) :
                           /\ metadata.modules[k].index = pallet_index_arg
                           /\ metadata.modules[k].calls.some}
        IN  /\ info_result.ok =>
                 /\ metadata.calls_ty = "variant"
                 /\ \E k \in selected :
                      LET calls == metadata.modules[k].calls.val
                      IN  \E j \in 1..Len(calls) :
                            /\ TagOf(j) = call_index_arg
                            /\ info_result.call_name = calls[j].name
                            /\ info_result.args = calls[j].arguments
            /\ metadata.calls_ty # "variant" => ~info_result.ok
            /\ \A k \in selected :
                 /\ (\A j \in 1..Len(metadata.modules[k].calls.val) : TagOf(j) # call_index_arg)
                      => ~info_result.ok
                 /\ (metadata.calls_ty = "variant"
                       /\ \E j \in 1..Len(metadata.modules[k].calls.val) :
                            TagOf(j) = call_index_arg) => info_result.ok

\* a call with two arguments has been found by its tag while another call is
\* at position call_index
C23_Witness ==
    /\ lookup_pc = "done"
    /\ metadata.version = "v14_v15"
    /\ metadata.tags = "above"
    /\ info_result.ok
    /\ Len(info_result.args) = 2
    /\ \E k \in 1..Len(metadata.modules) :
         /\ metadata.modules[k].name = info_result.pallet_name
         /\ call_index_arg + 1 <= Len(metadata.modules[k].calls.val)
         /\ metadata.modules[k].calls.val[call_index_arg + 1].name # info_result.call_name

\* ---- C29 -----------------------------------------------------------------
\* C29: for metadata V8 to V13 the synthesized call types agree with
\* get_extrinsic_info: builtin::Call has one variant for every pallet that
\* declares calls, and for every variant of it and every variant of that
\* pallet's call enum, get_extrinsic_info(index of the pallet's variant, index
\* of the call's variant) is that call of that pallet, with the names and
\* types of the variant's fields as arguments, in the same order.
C29_SynthesizedTypesAgree ==
    (lookup_pc \in {"call", "done"} /\ metadata.version \in {"v8_v11", "v12_v13"}
       /\ new_types.ok) =>
        LET call_enum == new_types.types[<<"builtin::Call">>]
        IN  /\ Len(call_enum) = Cardinality(Declaring)
            /\ {call_enum[i].name : i \in 1..Len(call_enum)}
                 = {metadata.modules[k].name : k \in Declaring}
            /\ \A k \in Declaring :
                 Len(new_types.types[<<"builtin::module::call", metadata.modules[k].name>>])
                    = Len(metadata.modules[k].calls.val)
            /\ \A i \in 1..Len(call_enum) :
                 LET calls == new_types.types[call_enum[i].fields]
                 IN  \A c \in 1..Len(calls) :
                        GetExtrinsicInfo(metadata, call_enum[i].index, calls[c].index)
                          = [ok |-> TRUE, pallet_name |-> call_enum[i].name,
                             call_name |-> calls[c].name, args |-> calls[c].fields]

\* the call types of a V12 or V13 metadata have been synthesized whose pallets
\* have index fields that differ from their positions, one pallet declaring no
\* calls and one declaring two
C29_Witness ==
    /\ lookup_pc = "done"
    /\ metadata.version = "v12_v13"
    /\ new_types.ok
    /\ \E k \in 1..Len(metadata.modules) : ~metadata.modules[k].calls.some
    /\ \E i \in 1..Len(new_types.types[<<"builtin::Call">>]) :
         /\ new_types.types[<<"builtin::Call">>][i].index # i - 1
         /\ Len(new_types.types[new_types.types[<<"builtin::Call">>][i].fields]) = 2

\* ---- C24 -----------------------------------------------------------------
\* the calls of get that observed the cursor values a .. a + k - 1
CallsIn(a, k) == {i \in 1..Len(gets) : gets[i].idx \in a..(a + k - 1)}

\* C24: RoundRobin::get cycles through a fixed non-empty list: the list never
\* changes; the calls, concurrent ones included, observe the cursor values
\* 0, 1, 2, .. each exactly once; the call that observes k returns item
\* k mod len; and any len*m consecutive calls that have returned have returned
\* every item exactly m times.
C24_RoundRobin ==
    /\ [][items' = items]_vars
    /\ [](LET len == Len(items)
              fetched == {c \in Callers : get_pc[c] = "fetched"}
          IN  /\ len >= 1
              /\ \A i \in 1..Len(gets) :
                    /\ gets[i].n = gets[i].idx % len
                    /\ gets[i].item = items[(gets[i].idx % len) + 1]
              /\ \A i, j \in 1..Len(gets) : i # j => gets[i].idx # gets[j].idx
              /\ \A c, d \in fetched : c # d => got_idx[c] # got_idx[d]
              /\ \A c \in fetched : \A i \in 1..Len(gets) : gets[i].idx # got_idx[c]
              /\ {gets[i].idx : i \in 1..Len(gets)} \cup {got_idx[c] : c \in fetched}
                    = 0..(idx - 1)
              /\ \A a \in 0..MaxGets : \A m \in 1..MaxGets :
                    Cardinality(CallsIn(a, len * m)) = len * m =>
                        \A k \in 1..len :
                            Cardinality({i \in CallsIn(a, len * m) :
                                           gets[i].item = items[k]}) = m)

\* two rounds over a list of three items have returned, the calls of the two
\* callers overtaking each other between fetch_add and the return
C24_Witness ==
    /\ Len(items) = 3
    /\ Len(gets) = 6
    /\ idx = 6
    /\ \E i, j \in 1..Len(gets) : i < j /\ gets[i].idx > gets[j].idx
    /\ \E i, j \in 1..Len(gets) : gets[i].caller # gets[j].caller

\* ---- C27 -----------------------------------------------------------------
\* C27: when spec versions are provided, the block number
\* pick_pseudorandom_block returns lies between the block of the first and the
\* block of the last provided spec-version update, for every number.
C27_BetweenFirstAndLast ==
    (pick_pc = "returned" /\ spec_versions.some) =>
        /\ spec_versions.val # <<>>
        /\ spec_versions.val[1].block <= block_number
        /\ block_number <= spec_versions.val[Len(spec_versions.val)].block

\* in the first round through the list (number below the number of updates)
\* the block returned is the block of update number, which is within the
\* updates, and without spec versions the block is the number itself
C27_FirstRoundWithinUpdates ==
    pick_pc = "returned" =>
        IF spec_versions.some
        THEN number < Len(spec_versions.val) =>
               /\ block_number = spec_versions.val[number + 1].block
               /\ spec_versions.val[1].block <= block_number
               /\ block_number <= spec_versions.val[Len(spec_versions.val)].block
        ELSE block_number = number

\* ---- C30 -----------------------------------------------------------------
\* the blocks behind lo and up to hi at which the spec version differs from
\* that of the block before
ChangeBlocks(lo, hi) == {b \in (lo + 1)..hi : state_fn[b] # state_fn[b - 1]}

\* (b, version(b)) for the blocks of B, in increasing order of b
ChangesAt(B) ==
    CHOOSE l \in [1..Cardinality(B) -> {<<b, state_fn[b]>> : b \in B}] :
        \A i, j \in 1..Cardinality(B) : i < j => l[i][1] < l[j][1]

\* C30: when each spec version occupies one contiguous range of blocks,
\* find_spec_changes ends having recorded (b, version(b)) for every block b
\* with start < b <= end whose spec version differs from that of block b - 1,
\* in increasing order, and no other block.
C30_EveryChangeReported ==
    loop_pc = "find_done" =>
        changes = ChangesAt(ChangeBlocks(starting_block_number, end))

\* what the loop does report when the sum of the two blocks fits the block
\* number: the changes at the blocks before end, in increasing order, and
\* while it runs the changes behind the starting block up to start
C30_ChangesBeforeEndReported ==
    (loop_pc \in {"find_loop", "find_chopping", "find_done"} /\ 2 * end <= PosMod) =>
        /\ cst # "panicked"
        /\ starting_block_number <= start /\ start <= end
        /\ low_version = state_fn[start]
        /\ changes = ChangesAt(ChangeBlocks(starting_block_number, start))
        /\ loop_pc = "find_done" =>
              changes = ChangesAt(ChangeBlocks(starting_block_number, end - 1))

====
